---- MODULE Spec2Model ----
(***************************************************************************)
(* Model of the student-records core: identity resolution                  *)
(* (src/modules/identity.py), enrollment span normalization                *)
(* (src/modules/enrollment.py), grade translation and transcripts          *)
(* (src/modules/grades.py), attendance (src/modules/attendance.py) and the *)
(* count checks of the reconciliation engine                               *)
(* (src/reconciliation/engine.py).                                         *)
(*                                                                         *)
(* Strings are sequences of one-character strings.  Python's None is the   *)
(* one-element sequence None, whose element is no character of any input.  *)
(* Scores are kept in hundredths (0.4 is 40): for every subset of the six  *)
(* weights, added in the order of the code, the float sum compares with    *)
(* 0.3, 0.5, 0.8 and 1.0 exactly as the sum of hundredths compares with    *)
(* 30, 50, 80 and 100.  Dates are day numbers.                             *)
(***************************************************************************)
EXTENDS Integers, Sequences, FiniteSets, TLC

VARIABLES matchCall,   \* the last match_records call: its arguments and result
          resolver,    \* IdentityResolver: golden_records and source_to_golden
          returned,    \* history: (source, source_id) -> the golden id first returned
          lastResolve, \* the last resolve_identity call and what it returned
          resolverB,   \* a second, separate IdentityResolver instance
          lastResolveB,\* the last resolve_identity call on the second instance
          enrollments, \* EnrollmentProcessor.enrollments[student]: list of spans
          issues,      \* EnrollmentProcessor.issues
          today,       \* date.today()
          lastOp,      \* the last EnrollmentProcessor operation and its result
          added,       \* history: the spans of the student in the order they were added
          grades,      \* GradeProcessor.grades[student]: list of GradeRecord
          gradeIssues, \* GradeProcessor.issues
          transcripts, \* GradeProcessor.transcripts[student], <<>> before the first build
          gradeOp,     \* the last grade operation and its result
          records,     \* AttendanceProcessor.records[student]: list of AttendanceRecord
          daily_summaries, \* AttendanceProcessor.daily_summaries[student]: date -> summary
          aggregates,  \* AttendanceProcessor.aggregates[student], <<>> before the first
          attendIssues,\* AttendanceProcessor.issues
          custom_mappings, \* AttendanceCodeMapper.custom_mappings
          unmapped_codes,  \* AttendanceCodeMapper.unmapped_codes
          attendOp,    \* the last attendance operation and its result
          source_data, \* ReconciliationEngine.source_data
          target_data, \* ReconciliationEngine.target_data
          checks,      \* ReconciliationEngine.checks
          results,     \* ReconciliationEngine.results
          checkOp      \* the last reconciliation check run and its CheckResult

matchVars    == <<matchCall>>
identityVars == <<resolver, returned, lastResolve>>
secondVars   == <<resolverB, lastResolveB>>
enrollVars   == <<enrollments, issues, today, lastOp, added>>
gradeVars    == <<grades, gradeIssues, transcripts, gradeOp>>
attendVars   == <<records, daily_summaries, aggregates, attendIssues,
                  custom_mappings, unmapped_codes, attendOp>>
reconVars    == <<source_data, target_data, checks, results, checkOp>>
vars == <<matchVars, identityVars, secondVars, enrollVars, gradeVars, attendVars,
          reconVars>>

----------------------------------------------------------------------------
(* Strings *)

None == <<"<None>">>

Truthy(x) == x # None /\ x # <<>>

NoneText == <<"N", "o", "n", "e">>

Str(x) == IF x = None THEN NoneText ELSE x

LowerLetters ==
  <<"a", "b", "c", "d", "e", "f", "g", "h", "i", "j", "k", "l", "m",
    "n", "o", "p", "q", "r", "s", "t", "u", "v", "w", "x", "y", "z">>

UpperLetters ==
  <<"A", "B", "C", "D", "E", "F", "G", "H", "I", "J", "K", "L", "M",
    "N", "O", "P", "Q", "R", "S", "T", "U", "V", "W", "X", "Y", "Z">>

Digits == {"0", "1", "2", "3", "4", "5", "6", "7", "8", "9"}

IsLower(c) == \E i \in DOMAIN LowerLetters : LowerLetters[i] = c

IsUpper(c) == \E i \in DOMAIN UpperLetters : UpperLetters[i] = c

IsLetter(c) == IsLower(c) \/ IsUpper(c)

IsSpace(c) == c = " "

IsWordChar(c) == IsLetter(c) \/ c \in Digits \/ c = "_"

ToLower(c) ==
  IF IsUpper(c)
  THEN LowerLetters[CHOOSE i \in DOMAIN UpperLetters : UpperLetters[i] = c]
  ELSE c

ToUpper(c) ==
  IF IsLower(c)
  THEN UpperLetters[CHOOSE i \in DOMAIN LowerLetters : LowerLetters[i] = c]
  ELSE c

RECURSIVE LStrip(_)
LStrip(s) == IF s # <<>> /\ IsSpace(Head(s)) THEN LStrip(Tail(s)) ELSE s

RECURSIVE RStrip(_)
RStrip(s) ==
  IF s # <<>> /\ IsSpace(s[Len(s)]) THEN RStrip(SubSeq(s, 1, Len(s) - 1)) ELSE s

Strip(s) == RStrip(LStrip(s))

LowerStr(s) == [i \in DOMAIN s |-> ToLower(s[i])]

\* re.sub(r'[^\w\s]', '', s)
KeepWordAndSpace(c) == IsWordChar(c) \/ IsSpace(c)

RemoveSpecial(s) == SelectSeq(s, KeepWordAndSpace)

\* re.sub(r'\s+', ' ', s)
RECURSIVE CollapseSpaces(_)
CollapseSpaces(s) ==
  IF Len(s) < 2 THEN s
  ELSE IF IsSpace(s[1]) /\ IsSpace(s[2]) THEN CollapseSpaces(Tail(s))
  ELSE <<s[1]>> \o CollapseSpaces(Tail(s))

\* str.title(): a letter is upper-cased after a non-letter, lower-cased after a letter
Title(s) ==
  [i \in DOMAIN s |->
     IF i = 1 \/ ~IsLetter(s[i - 1]) THEN ToUpper(s[i]) ELSE ToLower(s[i])]

IsDigit(c) == c \in Digits

\* the last n elements of s (s[-n:])
LastN(s, n) == IF Len(s) <= n THEN s ELSE SubSeq(s, Len(s) - n + 1, Len(s))

----------------------------------------------------------------------------
(* IdentityResolver: normalizers and match_records *)

normalize_name(name) ==
  IF ~Truthy(name) THEN <<>>
  ELSE CollapseSpaces(RemoveSpecial(LowerStr(Strip(Str(name)))))

normalize_email(email) ==
  IF ~Truthy(email) THEN <<>> ELSE LowerStr(Strip(Str(email)))

normalize_phone(phone) ==
  IF ~Truthy(phone) THEN <<>> ELSE SelectSeq(Str(phone), IsDigit)

\* record.get(key, "") of a key that may be absent
GetOrEmpty(v) == IF v = None THEN <<>> ELSE v

\* a or b
OrElse(a, b) == IF Truthy(a) THEN a ELSE b

WeightStateId == 40
WeightEmail == 25
WeightName == 15
WeightDob == 15
WeightPhone == 10
HighScore == 80
MediumScore == 50
LowScore == 30
PhoneDigits == 10

\* a comparison of the raw state ids, without str().strip()
RuleStateIdRaw(record1, record2) ==
  IF Truthy(record1.state_id) /\ Truthy(record2.state_id)
  THEN IF record1.state_id = record2.state_id THEN "match" ELSE "mismatch"
  ELSE "skip"

\* Rule 1: "match", "mismatch" or "skip"
RuleStateId(record1, record2) ==
  IF Truthy(record1.state_id) /\ Truthy(record2.state_id)
  THEN IF Strip(Str(record1.state_id)) = Strip(Str(record2.state_id))
       THEN "match" ELSE "mismatch"
  ELSE "skip"

RuleEmail(record1, record2) ==
  LET email1 == normalize_email(GetOrEmpty(record1.email))
      email2 == normalize_email(GetOrEmpty(record2.email))
  IN IF Truthy(email1) /\ Truthy(email2)
     THEN IF email1 = email2 THEN "match" ELSE "mismatch"
     ELSE "skip"

RuleName(name1, name2) ==
  LET n1 == normalize_name(GetOrEmpty(name1))
      n2 == normalize_name(GetOrEmpty(name2))
  IN IF n1 = n2 /\ Truthy(n1) THEN "match"
     ELSE IF Truthy(n1) /\ Truthy(n2) THEN "mismatch"
     ELSE "skip"

RuleDob(record1, record2) ==
  LET dob1 == OrElse(record1.date_of_birth, record1.dob)
      dob2 == OrElse(record2.date_of_birth, record2.dob)
  IN IF Truthy(dob1) /\ Truthy(dob2)
     THEN IF Str(dob1) = Str(dob2) THEN "match" ELSE "mismatch"
     ELSE "skip"

\* Rule 5 records a match only: a different phone is no mismatched field
RulePhone(record1, record2) ==
  LET phone1 == normalize_phone(GetOrEmpty(record1.phone))
      phone2 == normalize_phone(GetOrEmpty(record2.phone))
  IN IF Truthy(phone1) /\ Truthy(phone2)
        /\ Len(phone1) >= PhoneDigits /\ Len(phone2) >= PhoneDigits
        /\ LastN(phone1, PhoneDigits) = LastN(phone2, PhoneDigits)
     THEN "match" ELSE "skip"

\* the five rules in the order of the code: <<field, outcome, weight>>
MatchRules(record1, record2) ==
  << <<"state_id", RuleStateId(record1, record2), WeightStateId>>,
     <<"email", RuleEmail(record1, record2), WeightEmail>>,
     <<"first_name", RuleName(record1.first_name, record2.first_name), WeightName>>,
     <<"last_name", RuleName(record1.last_name, record2.last_name), WeightName>>,
     <<"date_of_birth", RuleDob(record1, record2), WeightDob>>,
     <<"phone", RulePhone(record1, record2), WeightPhone>> >>

RECURSIVE FieldsWith(_, _)
FieldsWith(rules, outcome) ==
  IF rules = <<>> THEN <<>>
  ELSE (IF Head(rules)[2] = outcome THEN <<Head(rules)[1]>> ELSE <<>>)
       \o FieldsWith(Tail(rules), outcome)

RECURSIVE ScoreOf(_)
ScoreOf(rules) ==
  IF rules = <<>> THEN 0
  ELSE (IF Head(rules)[2] = "match" THEN Head(rules)[3] ELSE 0) + ScoreOf(Tail(rules))

InSeq(x, s) == \E i \in DOMAIN s : s[i] = x

Confidence(matched_fields, score) ==
  IF InSeq("state_id", matched_fields) THEN "EXACT"
  ELSE IF score >= HighScore THEN "HIGH"
  ELSE IF score >= MediumScore THEN "MEDIUM"
  ELSE IF score >= LowScore THEN "LOW"
  ELSE "NO_MATCH"

match_records(record1, record2) ==
  LET rules == MatchRules(record1, record2)
      matched_fields == FieldsWith(rules, "match")
      score == ScoreOf(rules)
  IN [confidence |-> Confidence(matched_fields, score),
      match_score |-> score,
      matched_fields |-> matched_fields,
      mismatched_fields |-> FieldsWith(rules, "mismatch")]

----------------------------------------------------------------------------
(* Person records: every key of a record is present or absent (None) *)

S1 == <<"S", "1">>
S2 == <<"S", "2">>
Ann == <<"a", "n", "n">>
Bob == <<"b", "o", "b">>
Lee == <<"l", "e", "e">>
Bell == <<"b", "e", "l", "l">>
Dob1 == <<"2", "0", "1", "0", "-", "0", "1", "-", "0", "1">>
Dob2 == <<"2", "0", "1", "1", "-", "0", "5", "-", "0", "9">>
Mail == <<"a", "@", "b">>
Phone10 == <<"5", "5", "5", "0", "1", "0", "0", "1", "2", "3">>

StateIdInputs == {None, <<>>, <<" ">>, S1, <<" ">> \o S1, S2}
EmailInputs == {None, Mail}
FirstNameInputs == {Ann, <<"A", "n", "'", "N">>}
LastNameInputs == {Lee, Bell}
\* <<date_of_birth, dob>>
DobInputs == {<<Dob1, None>>, <<None, Dob1>>, <<Dob2, None>>}
PhoneInputs == {None, <<"1", "-">> \o Phone10}

Person(sid, st, em, fn, ln, db, ph) ==
  [student_id |-> sid, id |-> None, state_id |-> st, email |-> em,
   first_name |-> fn, last_name |-> ln, date_of_birth |-> db[1], dob |-> db[2],
   phone |-> ph]

PersonRecords ==
  {Person(<<"1">>, st, em, fn, ln, db, ph) :
     st \in StateIdInputs, em \in EmailInputs, fn \in FirstNameInputs,
     ln \in LastNameInputs, db \in DobInputs, ph \in PhoneInputs}

----------------------------------------------------------------------------
(* GoldenRecord and IdentityResolver.resolve_identity *)

\* dict[key] = value on a dict kept as a function
DictPut(d, key, value) == (key :> value) @@ d

add_source_id(golden, source, source_id) ==
  [golden EXCEPT
     !.source_ids = DictPut(golden.source_ids, source, source_id),
     !.merged_from = IF InSeq(source, golden.merged_from)
                     THEN golden.merged_from
                     ELSE Append(golden.merged_from, source)]

\* f"{first_name}|{last_name}|{date_of_birth}|{state_id}"
GoldenKey(golden) ==
  golden.first_name \o <<"|">> \o golden.last_name \o <<"|">>
    \o Str(golden.date_of_birth) \o <<"|">> \o Str(golden.state_id)

\* "GR-" + md5(key).hexdigest()[:12].upper(): the digest is kept as the key it
\* is taken of, so two ids are equal exactly when their keys are.
generate_golden_id(golden) == <<"GR-">> \o GoldenKey(golden)

\* str(record.get("student_id", record.get("id", "")))
SourceIdOf(record) ==
  Str(IF record.student_id # None THEN record.student_id
      ELSE IF record.id # None THEN record.id ELSE <<>>)

\* the dict resolve_identity builds from a golden record for the comparison
GoldenDict(golden) ==
  [student_id |-> None, id |-> None, state_id |-> golden.state_id,
   email |-> golden.email, first_name |-> golden.first_name,
   last_name |-> golden.last_name, date_of_birth |-> golden.date_of_birth,
   dob |-> None, phone |-> None]

\* a merge rule that leaves out the Exact tier
IsMergeConfidenceHighOnly(confidence) == confidence = "HIGH"

IsMergeConfidence(confidence) == confidence \in {"EXACT", "HIGH"}

MatchesGolden(record, golden) ==
  IsMergeConfidence(match_records(record, GoldenDict(golden)).confidence)

NewGolden(record, source) ==
  LET golden == add_source_id(
        [golden_id |-> <<>>, primary_source |-> source, source_ids |-> <<>>,
         first_name |-> Title(Strip(Str(GetOrEmpty(record.first_name)))),
         last_name |-> Title(Strip(Str(GetOrEmpty(record.last_name)))),
         date_of_birth |-> record.date_of_birth, email |-> record.email,
         state_id |-> record.state_id, merged_from |-> <<>>],
        source, SourceIdOf(record))
  IN [golden EXCEPT !.golden_id = generate_golden_id(golden)]

\* golden_records is an insertion-ordered dict: a sequence of [key, golden]
KeyIndex(golden_records, key) ==
  {i \in DOMAIN golden_records : golden_records[i].key = key}

GoldenPut(golden_records, key, golden) ==
  IF KeyIndex(golden_records, key) = {}
  THEN Append(golden_records, [key |-> key, golden |-> golden])
  ELSE [i \in DOMAIN golden_records |->
          IF golden_records[i].key = key
          THEN [key |-> key, golden |-> golden] ELSE golden_records[i]]

EmptyResolver == [golden_records |-> <<>>, source_to_golden |-> <<>>]

\* a resolver that never consults its source-id cache
IsCachedNever(rs, source, source_id) == FALSE

IsCached(rs, source, source_id) == <<source, source_id>> \in DOMAIN rs.source_to_golden

\* the golden records, in table order, that the loop would merge the record into
MatchingIndices(rs, record) ==
  {i \in DOMAIN rs.golden_records :
     MatchesGolden(record, rs.golden_records[i].golden)}

\* the first of them: the loop returns at the first Exact or High match
FirstMatch(matching) == CHOOSE i \in matching : \A j \in matching : i <= j

\* resolve_identity: the resolver after the call and the (golden_id, is_new) returned
resolve_identity(rs, record, source) ==
  LET source_id == SourceIdOf(record)
      matching == MatchingIndices(rs, record)
  IN
  IF IsCached(rs, source, source_id)
  THEN [resolver |-> rs,
        golden_id |-> rs.source_to_golden[<<source, source_id>>],
        is_new |-> FALSE]
  ELSE IF matching # {}
  THEN LET i == FirstMatch(matching)
           golden_id == rs.golden_records[i].key
       IN [resolver |->
             [golden_records |->
                [rs.golden_records EXCEPT
                   ![i].golden = add_source_id(@, source, source_id)],
              source_to_golden |->
                DictPut(rs.source_to_golden, <<source, source_id>>, golden_id)],
           golden_id |-> golden_id,
           is_new |-> FALSE]
  ELSE LET golden == NewGolden(record, source)
       IN [resolver |->
             [golden_records |->
                GoldenPut(rs.golden_records, golden.golden_id, golden),
              source_to_golden |->
                DictPut(rs.source_to_golden, <<source, source_id>>, golden.golden_id)],
           golden_id |-> golden.golden_id,
           is_new |-> TRUE]

----------------------------------------------------------------------------
(* EnrollmentSpan and EnrollmentProcessor *)

\* end_date = None: the span is ongoing
NoDate == 0

Min(a, b) == IF a <= b THEN a ELSE b

Max(a, b) == IF a >= b THEN a ELSE b

Span(school_id, start_date, end_date) ==
  [school_id |-> school_id, start_date |-> start_date, end_date |-> end_date]

\* end_date or date.today()
EndOrToday(span, now) == IF span.end_date = NoDate THEN now ELSE span.end_date

\* overlaps_with: <<overlaps, overlap_days>>
overlaps_with(self, other, now) ==
  IF self.end_date = NoDate /\ other.end_date = NoDate
  THEN <<self.school_id = other.school_id, 0>>
  ELSE LET self_end == EndOrToday(self, now)
           other_end == EndOrToday(other, now)
       IN IF self.start_date <= other_end /\ other.start_date <= self_end
          THEN <<TRUE, Min(self_end, other_end)
                         - Max(self.start_date, other.start_date) + 1>>
          ELSE <<FALSE, 0>>

\* a gap_with that applies the five-day threshold of find_gaps itself
gap_with_threshold(self, other) ==
  IF self.end_date = NoDate \/ other.end_date = NoDate THEN <<FALSE, 0>>
  ELSE IF self.end_date < other.start_date
  THEN <<other.start_date - self.end_date - 1 > 5,
         other.start_date - self.end_date - 1>>
  ELSE IF other.end_date < self.start_date
  THEN <<self.start_date - other.end_date - 1 > 5,
         self.start_date - other.end_date - 1>>
  ELSE <<FALSE, 0>>

\* gap_with: <<has_gap, gap_days>>
gap_with(self, other) ==
  IF self.end_date = NoDate \/ other.end_date = NoDate THEN <<FALSE, 0>>
  ELSE IF self.end_date < other.start_date
  THEN <<other.start_date - self.end_date - 1 > 0,
         other.start_date - self.end_date - 1>>
  ELSE IF other.end_date < self.start_date
  THEN <<self.start_date - other.end_date - 1 > 0,
         self.start_date - other.end_date - 1>>
  ELSE <<FALSE, 0>>

\* add_enrollment: the span built from a record whose dates are parsed or missing
add_enrollment(record, now) ==
  Span(record.school_id,
       IF record.start_date = NoDate THEN now ELSE record.start_date,
       record.end_date)

\* the place of a span in a list sorted by start_date: after every span that
\* starts no later (sorted() is stable)
RECURSIVE InsertByStart(_, _)
InsertByStart(sorted, span) ==
  IF sorted = <<>> THEN <<span>>
  ELSE IF Head(sorted).start_date <= span.start_date
  THEN <<Head(sorted)>> \o InsertByStart(Tail(sorted), span)
  ELSE <<span>> \o sorted

RECURSIVE SortFrom(_, _)
SortFrom(sorted, rest) ==
  IF rest = <<>> THEN sorted
  ELSE SortFrom(InsertByStart(sorted, Head(rest)), Tail(rest))

\* the spans in the order they were added: a normalization that does not sort
Unsorted(spans) == spans

\* sorted(enrollments, key=lambda e: e.start_date)
SortByStart(spans) == SortFrom(<<>>, spans)

\* truncating the previous span at the start of the next instead of extending it
MergeEndTruncate(last, enrollment) == enrollment.start_date - 1

\* the end date of the previous span after a same-school overlap
MergeEnd(last, enrollment) ==
  IF enrollment.end_date # NoDate
     /\ (last.end_date = NoDate \/ enrollment.end_date > last.end_date)
  THEN enrollment.end_date
  ELSE last.end_date

\* one step of the walk: the span is merged into the last resolved span or kept
ResolveOne(resolved, enrollment, now) ==
  IF resolved = <<>> THEN <<enrollment>>
  ELSE LET last == resolved[Len(resolved)]
       IN IF overlaps_with(last, enrollment, now)[1]
             /\ last.school_id = enrollment.school_id
          THEN [resolved EXCEPT ![Len(resolved)].end_date = MergeEnd(last, enrollment)]
          ELSE Append(resolved, enrollment)

RECURSIVE ResolveFrom(_, _, _)
ResolveFrom(resolved, rest, now) ==
  IF rest = <<>> THEN resolved
  ELSE ResolveFrom(ResolveOne(resolved, Head(rest), now), Tail(rest), now)

\* normalize_enrollments: the list stored for the student, which is the result
normalize_enrollments(spans, now) ==
  IF spans = <<>> THEN <<>> ELSE ResolveFrom(<<>>, SortByStart(spans), now)

GapThreshold == 5

\* find_gaps: <<e1, e2, gap_days>> for the flagged pairs of start-date neighbours
find_gaps(spans) ==
  LET sorted == SortByStart(spans)
      flagged(i) == LET g == gap_with(sorted[i], sorted[i + 1])
                    IN g[1] /\ g[2] > GapThreshold
      entry(i) == <<sorted[i], sorted[i + 1], gap_with(sorted[i], sorted[i + 1])[2]>>
      pick[i \in 0 .. Len(sorted)] ==
        IF i = 0 \/ i >= Len(sorted) THEN <<>>
        ELSE (IF flagged(Len(sorted) - i) THEN <<entry(Len(sorted) - i)>> ELSE <<>>)
             \o pick[i - 1]
  IN IF Len(sorted) < 2 THEN <<>> ELSE pick[Len(sorted) - 1]

GapIssue(gap) ==
  [type |-> "gap", enrollment1 |-> gap[1], enrollment2 |-> gap[2], gap_days |-> gap[3]]

\* EnrollmentSpan.is_active: a date is truthy, so only a missing end is open
is_active(self, check_date) ==
  IF self.end_date # NoDate
  THEN self.start_date <= check_date /\ check_date <= self.end_date
  ELSE self.start_date <= check_date

\* get_active_enrollment: the first span of the stored list that is active on
\* as_of (today without one), <<span>>, or <<>> for None
get_active_enrollment(spans, as_of, now) ==
  LET check_date == IF as_of # NoDate THEN as_of ELSE now
      active == {i \in DOMAIN spans : is_active(spans[i], check_date)}
  IN IF active = {} THEN <<>>
     ELSE <<spans[CHOOSE i \in active : \A j \in active : i <= j]>>

----------------------------------------------------------------------------
(* GradeProcessor: grade scale translation.  Numbers read from text are kept *)
(* in tenths (3.5 is 35, 95% is 950), grade points too (A- is 37); an        *)
(* optional number is <<>> for None and <<n>> otherwise.                     *)

UpperStr(s) == [i \in DOMAIN s |-> ToUpper(s[i])]

\* s.replace(old, ""), for a one-character old
Without(s, old) == SelectSeq(s, LAMBDA c : c # old)

DigitSeq == <<"0", "1", "2", "3", "4", "5", "6", "7", "8", "9">>

DigitValue(c) == (CHOOSE i \in DOMAIN DigitSeq : DigitSeq[i] = c) - 1

IsDigits(s) == \A i \in DOMAIN s : IsDigit(s[i])

RECURSIVE NatValue(_)
NatValue(s) ==
  IF s = <<>> THEN 0 ELSE 10 * NatValue(SubSeq(s, 1, Len(s) - 1)) + DigitValue(s[Len(s)])

\* the position of the first "." of s, Len(s) + 1 without one
DotAt(s) ==
  IF \E i \in DOMAIN s : s[i] = "."
  THEN CHOOSE i \in DOMAIN s : s[i] = "." /\ \A j \in 1 .. (i - 1) : s[j] # "."
  ELSE Len(s) + 1

\* float(s) of a decimal numeral with an optional sign and at most one digit
\* after the point: <<TRUE, tenths>>, and <<FALSE, 0>> for the ValueError
ParseFloat(s) ==
  LET signed == s # <<>> /\ Head(s) \in {"+", "-"}
      body == IF signed THEN Tail(s) ELSE s
      whole == SubSeq(body, 1, DotAt(body) - 1)
      frac == SubSeq(body, DotAt(body) + 1, Len(body))
      tenths == 10 * NatValue(whole) + (IF frac = <<>> THEN 0 ELSE DigitValue(frac[1]))
  IN IF /\ IsDigits(whole)
        /\ IsDigits(frac)
        /\ Len(frac) <= 1
        /\ whole \o frac # <<>>
     THEN <<TRUE, IF signed /\ Head(s) = "-" THEN 0 - tenths ELSE tenths>>
     ELSE <<FALSE, 0>>

NullText == <<"N", "U", "L", "L">>

NaText == <<"N", "/", "A">>

\* not grade or str(grade).upper() in ["NULL", "N/A", ""]
IsNoGrade(grade) ==
  ~Truthy(grade) \/ UpperStr(Str(grade)) \in {NullText, NaText, <<>>}

\* re.match(r'^[A-F][+-]?$', s)
IsLetterGradeText(s) ==
  /\ Len(s) \in {1, 2}
  /\ s[1] \in {"A", "B", "C", "D", "E", "F"}
  /\ Len(s) = 2 => s[2] \in {"+", "-"}

PassFailTexts ==
  {<<"P">>, <<"N", "P">>, <<"P", "A", "S", "S">>, <<"F", "A", "I", "L">>, <<"S">>, <<"U">>}

PercentageMax == 1000

NumericMax == 50

detect_grade_type(grade) ==
  IF IsNoGrade(grade) THEN "letter"
  ELSE LET grade_str == UpperStr(Strip(Str(grade)))
           value == ParseFloat(Without(grade_str, "%"))
       IN IF IsLetterGradeText(grade_str) THEN "letter"
          ELSE IF grade_str \in PassFailTexts THEN "pass_fail"
          ELSE IF value[1] /\ 0 <= value[2] /\ value[2] <= PercentageMax
          THEN "percentage"
          ELSE IF value[1] /\ 0 <= value[2] /\ value[2] <= NumericMax
          THEN "numeric"
          ELSE "letter"

\* normalize_letter_grade: the variations table
Variations ==
  <<<<<<"A", " ", "P", "L", "U", "S">>, <<"A", "+">>>>,
    <<<<"A", " ", "M", "I", "N", "U", "S">>, <<"A", "-">>>>,
    <<<<"B", " ", "P", "L", "U", "S">>, <<"B", "+">>>>,
    <<<<"B", " ", "M", "I", "N", "U", "S">>, <<"B", "-">>>>,
    <<<<"C", " ", "P", "L", "U", "S">>, <<"C", "+">>>>,
    <<<<"C", " ", "M", "I", "N", "U", "S">>, <<"C", "-">>>>,
    <<<<"D", " ", "P", "L", "U", "S">>, <<"D", "+">>>>,
    <<<<"D", " ", "M", "I", "N", "U", "S">>, <<"D", "-">>>>,
    <<<<"P", "A", "S", "S">>, <<"P">>>>,
    <<<<"F", "A", "I", "L">>, <<"F">>>>,
    <<<<"S", "A", "T", "I", "S", "F", "A", "C", "T", "O", "R", "Y">>, <<"P">>>>,
    <<<<"U", "N", "S", "A", "T", "I", "S", "F", "A", "C", "T", "O", "R", "Y">>, <<"F">>>>,
    <<<<"S">>, <<"P">>>>,
    <<<<"U">>, <<"F">>>>>>

normalize_letter_grade(grade) ==
  IF IsNoGrade(grade) THEN None
  ELSE LET grade_str == UpperStr(Strip(Str(grade)))
           known == {i \in DOMAIN Variations : Variations[i][1] = grade_str}
       IN IF known # {} THEN Variations[CHOOSE i \in known : TRUE][2]
          ELSE IF IsLetterGradeText(grade_str) THEN grade_str
          ELSE None

\* LETTER_TO_POINTS: the letters with a value, in tenths
LETTER_TO_POINTS ==
  <<<<<<"A", "+">>, 40>>,
    <<<<"A">>, 40>>,
    <<<<"A", "-">>, 37>>,
    <<<<"B", "+">>, 33>>,
    <<<<"B">>, 30>>,
    <<<<"B", "-">>, 27>>,
    <<<<"C", "+">>, 23>>,
    <<<<"C">>, 20>>,
    <<<<"C", "-">>, 17>>,
    <<<<"D", "+">>, 13>>,
    <<<<"D">>, 10>>,
    <<<<"D", "-">>, 7>>,
    <<<<"F">>, 0>>>>

\* LETTER_TO_POINTS: the letters whose value is None
LettersWithoutPoints == {<<"P">>, <<"N", "P">>, <<"I">>, <<"W">>}

\* LETTER_TO_POINTS.get(letter)
PointsOf(letter) ==
  LET known == {i \in DOMAIN LETTER_TO_POINTS : LETTER_TO_POINTS[i][1] = letter}
  IN IF known = {} THEN <<>> ELSE <<LETTER_TO_POINTS[CHOOSE i \in known : TRUE][2]>>

PERCENTAGE_TO_LETTER ==
  <<<<970, <<"A", "+">>>>,
    <<930, <<"A">>>>,
    <<900, <<"A", "-">>>>,
    <<870, <<"B", "+">>>>,
    <<830, <<"B">>>>,
    <<800, <<"B", "-">>>>,
    <<770, <<"C", "+">>>>,
    <<730, <<"C">>>>,
    <<700, <<"C", "-">>>>,
    <<670, <<"D", "+">>>>,
    <<630, <<"D">>>>,
    <<600, <<"D", "-">>>>,
    <<0, <<"F">>>>>>

NUMERIC_TO_LETTER ==
  <<<<40, <<"A">>>>,
    <<37, <<"A", "-">>>>,
    <<33, <<"B", "+">>>>,
    <<30, <<"B">>>>,
    <<27, <<"B", "-">>>>,
    <<23, <<"C", "+">>>>,
    <<20, <<"C">>>>,
    <<17, <<"C", "-">>>>,
    <<13, <<"D", "+">>>>,
    <<10, <<"D">>>>,
    <<7, <<"D", "-">>>>,
    <<0, <<"F">>>>>>

\* the letter of the first threshold of the table that the value reaches
FirstReached(thresholds, value) ==
  LET reached == {i \in DOMAIN thresholds : value >= thresholds[i][1]}
  IN IF reached = {} THEN <<"F">>
     ELSE thresholds[CHOOSE i \in reached : \A j \in reached : i <= j][2]

percentage_to_letter(percentage) == FirstReached(PERCENTAGE_TO_LETTER, percentage)

numeric_to_letter(numeric) == FirstReached(NUMERIC_TO_LETTER, numeric)

letter_to_points(letter) ==
  IF ~Truthy(letter) THEN <<>>
  ELSE LET normalized == normalize_letter_grade(letter)
       IN IF Truthy(normalized) THEN PointsOf(normalized) ELSE <<>>

\* sub in s
Contains(s, sub) ==
  \E i \in 1 .. (Len(s) - Len(sub) + 1) : SubSeq(s, i, i + Len(sub) - 1) = sub

StartsWith(s, prefix) == Len(s) >= Len(prefix) /\ SubSeq(s, 1, Len(prefix)) = prefix

\* float(record credits), 0.0 for what is no number; in tenths
CreditsOf(text) ==
  LET value == ParseFloat(Strip(Str(text))) IN IF value[1] THEN value[2] ELSE 0

\* the letter and numeric grade process_grade derives from the raw grade
ConvertGrade(raw_grade) ==
  LET grade_type == detect_grade_type(raw_grade)
      letter == normalize_letter_grade(raw_grade)
  IN IF grade_type = "percentage"
     THEN LET percentage == ParseFloat(Without(raw_grade, "%"))
          IN IF percentage[1]
             THEN [letter_grade |-> percentage_to_letter(percentage[2]),
                   numeric_grade |-> <<percentage[2]>>]
             ELSE [letter_grade |-> None, numeric_grade |-> <<>>]
     ELSE IF grade_type = "numeric"
     THEN LET numeric == ParseFloat(raw_grade)
          IN IF numeric[1]
             THEN [letter_grade |-> numeric_to_letter(numeric[2]),
                   numeric_grade |-> <<numeric[2]>>]
             ELSE [letter_grade |-> None, numeric_grade |-> <<>>]
     ELSE [letter_grade |-> letter,
           numeric_grade |-> IF Truthy(letter) THEN letter_to_points(letter) ELSE <<>>]

\* x or 0.0, of an optional number
OrZero(x) == IF x = <<>> THEN 0 ELSE x[1]

\* process_grade: the GradeRecord built from a source record
GradeRecordOf(record) ==
  LET raw_grade == Strip(Str(record.GRADE))
      converted == ConvertGrade(raw_grade)
      letter_grade == converted.letter_grade
      grade_points == IF Truthy(letter_grade) THEN letter_to_points(letter_grade) ELSE <<0>>
      credits == CreditsOf(record.CREDITS)
      course_name == UpperStr(Str(record.COURSE_NAME))
      is_honors == Contains(course_name, <<"H", "O", "N", "O", "R", "S">>)
                     \/ Contains(course_name, <<"H", "O", "N">>)
      is_ap == Contains(course_name, <<"A", "P", " ">>)
                 \/ StartsWith(course_name, <<"A", "P">>)
  IN [course_code |-> UpperStr(Str(record.COURSE_CODE)),
      course_name |-> Title(Strip(Str(record.COURSE_NAME))),
      term |-> Title(Strip(Str(record.SEMESTER))),
      school_year |-> Str(record.YEAR),
      raw_grade |-> raw_grade,
      letter_grade |-> letter_grade,
      numeric_grade |-> converted.numeric_grade,
      credits_attempted |-> credits,
      credits_earned |->
        IF Truthy(letter_grade) /\ letter_grade \notin {<<"F">>, <<"I">>, <<"W">>}
        THEN credits ELSE 0,
      grade_points |-> OrZero(grade_points),
      is_weighted |-> is_honors \/ is_ap,
      status |-> "final"]

\* process_grade: the issue tracked for a grade that has no letter
InvalidGradeIssues(grade_record) ==
  IF ~Truthy(grade_record.letter_grade) /\ grade_record.raw_grade # <<>>
  THEN <<[type |-> "invalid_grade", course_code |-> grade_record.course_code,
          raw_grade |-> grade_record.raw_grade]>>
  ELSE <<>>

WeightBonus == 5

\* round(numerator / denominator): the nearest integer (no input of the
\* specifications below gives a quotient halfway between two integers)
RoundDiv(numerator, denominator) ==
  (2 * numerator + denominator) \div (2 * denominator)

\* calculate_gpa without the test of line 116: every entry is counted
RECURSIVE GpaSumsOfAll(_, _, _)
GpaSumsOfAll(entries, k, sums) ==
  IF k > Len(entries) THEN sums
  ELSE LET entry == entries[k]
           weight_bonus == IF entry.is_weighted THEN WeightBonus ELSE 0
       IN GpaSumsOfAll(entries, k + 1,
            [total_quality_points |->
               sums.total_quality_points
                 + entry.grade_points * entry.credits_attempted,
             weighted_quality_points |->
               sums.weighted_quality_points
                 + (entry.grade_points + weight_bonus) * entry.credits_attempted,
             total_credits |-> sums.total_credits + entry.credits_attempted])

\* the sums of the loop of calculate_gpa over the entries from index k on
RECURSIVE GpaSums(_, _, _)
GpaSums(entries, k, sums) ==
  IF k > Len(entries) THEN sums
  ELSE LET entry == entries[k]
           weight_bonus == IF entry.is_weighted THEN WeightBonus ELSE 0
       IN GpaSums(entries, k + 1,
            IF entry.credits_attempted > 0
            THEN [total_quality_points |->
                    sums.total_quality_points
                      + entry.grade_points * entry.credits_attempted,
                  weighted_quality_points |->
                    sums.weighted_quality_points
                      + (entry.grade_points + weight_bonus) * entry.credits_attempted,
                  total_credits |-> sums.total_credits + entry.credits_attempted]
            ELSE sums)

\* StudentTranscript.calculate_gpa: the GPAs in thousandths, the credits in tenths
calculate_gpa(entries) ==
  IF entries = <<>>
  THEN [cumulative_gpa |-> 0, weighted_gpa |-> 0, total_credits_attempted |-> 0]
  ELSE LET sums == GpaSums(entries, 1, [total_quality_points |-> 0,
                                        weighted_quality_points |-> 0,
                                        total_credits |-> 0])
       IN [cumulative_gpa |->
             IF sums.total_credits > 0
             THEN RoundDiv(100 * sums.total_quality_points, sums.total_credits)
             ELSE 0,
           weighted_gpa |->
             IF sums.total_credits > 0
             THEN RoundDiv(100 * sums.weighted_quality_points, sums.total_credits)
             ELSE 0,
           total_credits_attempted |-> sums.total_credits]

\* build_transcript: f"{grade.course_code}-{grade.term}-{grade.school_year}"
GradeKey(grade) == grade.course_code \o <<"-">> \o grade.term \o <<"-">> \o grade.school_year

\* the grade kept for a key when another grade of that key arrives
KeepHigher(kept, grade) ==
  IF grade.grade_points > kept.grade_points THEN grade ELSE kept

\* build_transcript: unique_grades, a dict in the order its keys were inserted
RECURSIVE UniqueGrades(_, _, _)
UniqueGrades(grade_list, k, unique_grades) ==
  IF k > Len(grade_list) THEN unique_grades
  ELSE LET grade == grade_list[k]
           at == {i \in DOMAIN unique_grades : unique_grades[i].key = GradeKey(grade)}
       IN UniqueGrades(grade_list, k + 1,
            IF at = {}
            THEN Append(unique_grades, [key |-> GradeKey(grade), grade |-> grade])
            ELSE LET i == CHOOSE i \in at : TRUE
                 IN [unique_grades EXCEPT ![i].grade = KeepHigher(@, grade)])

TranscriptEntry(grade) ==
  [course_code |-> grade.course_code, course_name |-> grade.course_name,
   term |-> grade.term, school_year |-> grade.school_year,
   letter_grade |-> grade.letter_grade,
   credits_attempted |-> grade.credits_attempted,
   credits_earned |-> grade.credits_earned,
   grade_points |-> grade.grade_points, is_weighted |-> grade.is_weighted]

\* build_transcript: the entries of the unique grades that are final and have a letter
RECURSIVE EntriesOf(_)
EntriesOf(unique_grades) ==
  IF unique_grades = <<>> THEN <<>>
  ELSE LET grade == Head(unique_grades).grade
       IN (IF grade.status = "final" /\ Truthy(grade.letter_grade)
           THEN <<TranscriptEntry(grade)>> ELSE <<>>)
          \o EntriesOf(Tail(unique_grades))

RECURSIVE SumCreditsEarned(_)
SumCreditsEarned(entries) ==
  IF entries = <<>> THEN 0
  ELSE Head(entries).credits_earned + SumCreditsEarned(Tail(entries))

\* TranscriptBuilder.build_transcript: the transcript of the grades of the student
build_transcript(grade_list) ==
  LET entries == EntriesOf(UniqueGrades(grade_list, 1, <<>>))
      gpa == calculate_gpa(entries)
  IN [entries |-> entries,
      cumulative_gpa |-> gpa.cumulative_gpa,
      weighted_gpa |-> gpa.weighted_gpa,
      total_credits_attempted |-> gpa.total_credits_attempted,
      total_credits_earned |-> SumCreditsEarned(entries)]

----------------------------------------------------------------------------
(* AttendanceCodeMapper and AttendanceProcessor.  A status is the value of   *)
(* the AttendanceStatus member; the date of a record is a day number, the     *)
(* date text being read by parse_date before any operation below looks at it. *)
(* An attendance rate is kept in hundredths of a percent (66.67 is 6667).     *)

\* AttendanceRecord.is_present
is_present(self) == self.status \in {"Present", "Tardy", "Remote", "Half Day"}

\* AttendanceRecord.is_absent
is_absent(self) == self.status \in {"Absent", "Excused", "Unexcused"}

\* CODE_MAPPINGS
CODE_MAPPINGS ==
  <<<<<<"p">>, "Present">>,
    <<<<"p", "r", "e", "s", "e", "n", "t">>, "Present">>,
    <<<<"p", "r", "e", "s">>, "Present">>,
    <<<<"p", "r">>, "Present">>,
    <<<<"1">>, "Present">>,
    <<<<"y">>, "Present">>,
    <<<<"y", "e", "s">>, "Present">>,
    <<<<"i", "n">>, "Present">>,
    <<<<"a">>, "Absent">>,
    <<<<"a", "b", "s", "e", "n", "t">>, "Absent">>,
    <<<<"a", "b", "s">>, "Absent">>,
    <<<<"a", "b">>, "Absent">>,
    <<<<"0">>, "Absent">>,
    <<<<"n">>, "Absent">>,
    <<<<"n", "o">>, "Absent">>,
    <<<<"o", "u", "t">>, "Absent">>,
    <<<<"t">>, "Tardy">>,
    <<<<"t", "a", "r", "d", "y">>, "Tardy">>,
    <<<<"l", "a", "t", "e">>, "Tardy">>,
    <<<<"l">>, "Tardy">>,
    <<<<"l", "t">>, "Tardy">>,
    <<<<"e">>, "Excused">>,
    <<<<"e", "x", "c", "u", "s", "e", "d">>, "Excused">>,
    <<<<"e", "x", "c">>, "Excused">>,
    <<<<"e", "x">>, "Excused">>,
    <<<<"e", "a">>, "Excused">>,
    <<<<"e", "x", "c", "u", "s", "e", "d", " ", "a", "b", "s", "e", "n", "c", "e">>, "Excused">>,
    <<<<"u">>, "Unexcused">>,
    <<<<"u", "n", "e", "x", "c", "u", "s", "e", "d">>, "Unexcused">>,
    <<<<"u", "n", "e", "x">>, "Unexcused">>,
    <<<<"u", "a">>, "Unexcused">>,
    <<<<"u", "n", "e", "x", "c", "u", "s", "e", "d", " ", "a", "b", "s", "e", "n", "c", "e">>, "Unexcused">>,
    <<<<"r">>, "Remote">>,
    <<<<"r", "e", "m", "o", "t", "e">>, "Remote">>,
    <<<<"v", "i", "r", "t", "u", "a", "l">>, "Remote">>,
    <<<<"v">>, "Remote">>,
    <<<<"o", "n", "l", "i", "n", "e">>, "Remote">>,
    <<<<"e", "d">>, "Early Departure">>,
    <<<<"e", "a", "r", "l", "y">>, "Early Departure">>,
    <<<<"e", "a", "r", "l", "y", " ", "d", "e", "p", "a", "r", "t", "u", "r", "e">>, "Early Departure">>,
    <<<<"l", "e", "f", "t", " ", "e", "a", "r", "l", "y">>, "Early Departure">>>>

\* CODE_MAPPINGS[normalized], for a code of the table
StandardStatus(normalized) ==
  CODE_MAPPINGS[CHOOSE i \in DOMAIN CODE_MAPPINGS : CODE_MAPPINGS[i][1] = normalized][2]

IsStandardCode(normalized) ==
  \E i \in DOMAIN CODE_MAPPINGS : CODE_MAPPINGS[i][1] = normalized

\* str(code).lower().strip()
NormalizedCode(code) == Strip(LowerStr(Str(code)))

\* add_custom_mapping: the custom mappings with the code mapped to the status
add_custom_mapping(mappings, code, status) ==
  [key \in DOMAIN mappings \cup {NormalizedCode(code)} |->
     IF key = NormalizedCode(code) THEN status ELSE mappings[key]]

\* map_code with the static table looked up before the custom mappings
map_code_static_first(mappings, code) ==
  IF ~Truthy(code)
  THEN [status |-> "Absent", was_mapped |-> FALSE, unmapped |-> {}]
  ELSE LET normalized == NormalizedCode(code)
       IN IF IsStandardCode(normalized)
          THEN [status |-> StandardStatus(normalized), was_mapped |-> TRUE,
                unmapped |-> {}]
          ELSE IF normalized \in DOMAIN mappings
          THEN [status |-> mappings[normalized], was_mapped |-> TRUE, unmapped |-> {}]
          ELSE [status |-> "Absent", was_mapped |-> FALSE, unmapped |-> {code}]

\* map_code: the status, was_mapped and the codes that join unmapped_codes
map_code(mappings, code) ==
  IF ~Truthy(code)
  THEN [status |-> "Absent", was_mapped |-> FALSE, unmapped |-> {}]
  ELSE LET normalized == NormalizedCode(code)
       IN IF normalized \in DOMAIN mappings
          THEN [status |-> mappings[normalized], was_mapped |-> TRUE, unmapped |-> {}]
          ELSE IF IsStandardCode(normalized)
          THEN [status |-> StandardStatus(normalized), was_mapped |-> TRUE,
                unmapped |-> {}]
          ELSE [status |-> "Absent", was_mapped |-> FALSE, unmapped |-> {code}]

\* process_record: the AttendanceRecord built from a source record
AttendanceRecordOf(record, mappings, now) ==
  LET raw_code == Strip(Str(record.Status))
  IN [date |-> IF record.Date # NoDate THEN record.Date ELSE now,
      status |-> map_code(mappings, raw_code).status,
      source_code |-> raw_code]

\* process_record: the issue tracked for a code that is not mapped
UnmappedCodeIssues(record, mappings) ==
  LET raw_code == Strip(Str(record.Status))
  IN IF ~map_code(mappings, raw_code).was_mapped /\ raw_code # <<>>
     THEN <<[type |-> "unmapped_code", date |-> record.Date, code |-> raw_code]>>
     ELSE <<>>

\* the number of elements of the sequence that satisfy Test
CountOf(s, Test(_)) == Cardinality({i \in DOMAIN s : Test(s[i])})

IsTardy(self) == self.status = "Tardy"

\* DailyAttendanceSummary(date, period_records) with its defaults
NewSummary(target_date, period_records) ==
  [date |-> target_date, periods_present |-> 0, periods_absent |-> 0,
   periods_tardy |-> 0, total_periods |-> 0, daily_status |-> "Present",
   period_records |-> period_records]

\* the status of a day with the test for Half Day before the test for Absent
DailyStatusHalfDayFirst(periods_absent, periods_tardy, total_periods) ==
  IF 2 * periods_absent > total_periods THEN "Half Day"
  ELSE IF periods_absent = total_periods THEN "Absent"
  ELSE IF periods_tardy > 0 /\ periods_absent = 0 THEN "Tardy"
  ELSE "Present"

\* the status the counts of a day give
DailyStatusOf(periods_absent, periods_tardy, total_periods) ==
  IF periods_absent = total_periods THEN "Absent"
  ELSE IF 2 * periods_absent > total_periods THEN "Half Day"
  ELSE IF periods_tardy > 0 /\ periods_absent = 0 THEN "Tardy"
  ELSE "Present"

\* DailyAttendanceSummary.calculate_daily_status: the summary after the call
calculate_daily_status(self) ==
  IF self.period_records = <<>> THEN self
  ELSE LET total_periods == Len(self.period_records)
           periods_absent == CountOf(self.period_records, is_absent)
           periods_tardy == CountOf(self.period_records, IsTardy)
       IN [self EXCEPT
             !.total_periods = total_periods,
             !.periods_present = CountOf(self.period_records, is_present),
             !.periods_absent = periods_absent,
             !.periods_tardy = periods_tardy,
             !.daily_status = DailyStatusOf(periods_absent, periods_tardy, total_periods)]

\* [r for r in records if r.date == target_date]
RECURSIVE RecordsOn(_, _)
RecordsOn(recs, target_date) ==
  IF recs = <<>> THEN <<>>
  ELSE (IF Head(recs).date = target_date THEN <<Head(recs)>> ELSE <<>>)
       \o RecordsOn(Tail(recs), target_date)

\* build_daily_summary: the summary of the records of the day
build_daily_summary(recs, target_date) ==
  calculate_daily_status(NewSummary(target_date, RecordsOn(recs, target_date)))

\* self.daily_summaries[student_id][target_date] = summary
WithSummary(summaries, summary) ==
  [day \in DOMAIN summaries \cup {summary.date} |->
     IF day = summary.date THEN summary ELSE summaries[day]]

\* calculate_aggregate: the dates of the records from start to end
DatesWithin(recs, start, end) ==
  {recs[i].date : i \in {j \in DOMAIN recs : start <= recs[j].date /\ recs[j].date <= end}}

\* calculate_rate over the present days only
calculate_rate_of_present(self) ==
  IF self.total_days > 0
  THEN [self EXCEPT !.attendance_rate = RoundDiv(self.days_present * 10000, self.total_days)]
  ELSE self

\* AttendanceAggregate.calculate_rate, the rate left as it is without a day
calculate_rate(self) ==
  IF self.total_days > 0
  THEN [self EXCEPT !.attendance_rate =
          RoundDiv((self.days_present + self.days_tardy) * 10000, self.total_days)]
  ELSE self

\* calculate_aggregate: the aggregate of the days from start to end
calculate_aggregate(recs, start, end) ==
  LET days == DatesWithin(recs, start, end)
      summaries == [day \in days |-> build_daily_summary(recs, day)]
      DaysOf(statuses) ==
        Cardinality({day \in days : summaries[day].daily_status \in statuses})
  IN calculate_rate(
       [start_date |-> start, end_date |-> end,
        days_present |-> DaysOf({"Present"}),
        days_tardy |-> DaysOf({"Tardy"}),
        days_excused |-> DaysOf({"Excused"}),
        days_unexcused |-> DaysOf({"Unexcused"}),
        days_absent |-> DaysOf({"Absent", "Half Day"}),
        total_days |-> Cardinality(days),
        attendance_rate |-> 0])

\* calculate_aggregate: the summaries stored by its build_daily_summary calls
SummariesAfterAggregate(summaries, recs, start, end) ==
  LET days == DatesWithin(recs, start, end)
  IN [day \in DOMAIN summaries \cup days |->
        IF day \in days THEN build_daily_summary(recs, day) ELSE summaries[day]]

\* verify_totals: the result for the stored aggregate
verify_totals(aggregate, expected_present, expected_absent) ==
  LET actual_present == aggregate.days_present + aggregate.days_tardy
      present_match == actual_present = expected_present
      absent_match ==
        aggregate.days_absent + aggregate.days_excused + aggregate.days_unexcused
          = expected_absent
  IN [verified |-> present_match /\ absent_match,
      expected_present |-> expected_present, actual_present |-> actual_present,
      present_match |-> present_match,
      expected_absent |-> expected_absent, actual_absent |-> aggregate.days_absent,
      absent_match |-> absent_match]

----------------------------------------------------------------------------
(* ReconciliationEngine: count checks.  The data of an entity type is a list  *)
(* of records, of which a count check reads the length only; a record is      *)
(* written as its position in the list.  A threshold is kept in thousandths   *)
(* (0.99 is 990).                                                             *)

\* the count checks of _register_default_checks for students and grades, with
\* the entity type _run_check gives to run_count_check
CountChecks ==
  {[id |-> "count_students", threshold |-> 1000, entity_type |-> "students"],
   [id |-> "count_grades", threshold |-> 990, entity_type |-> "grades"]}

\* self.source_data[entity_type] = data
WithData(loaded, entity_type, data) ==
  [entity \in DOMAIN loaded \cup {entity_type} |->
     IF entity = entity_type THEN data ELSE loaded[entity]]

\* len(loaded.get(entity_type, []))
CountIn(loaded, entity_type) ==
  IF entity_type \in DOMAIN loaded THEN Len(loaded[entity_type]) ELSE 0

\* the comparison of run_count_check with > in the place of >=
ExceedsThreshold(target_count, source_count, threshold) ==
  target_count * 1000 > threshold * source_count

\* target_count / source_count >= threshold, the threshold in thousandths
ReachesThreshold(target_count, source_count, threshold) ==
  target_count * 1000 >= threshold * source_count

\* run_count_check: the CheckResult
run_count_check(source, target, entity_type, check) ==
  LET source_count == CountIn(source, entity_type)
      target_count == CountIn(target, entity_type)
  IN IF source_count = 0
     THEN [check_id |-> check.id, status |-> "skipped",
           source_value |-> 0, target_value |-> 0]
     ELSE [check_id |-> check.id,
           status |-> IF ReachesThreshold(target_count, source_count, check.threshold)
                      THEN "passed" ELSE "failed",
           source_value |-> source_count, target_value |-> target_count]

----------------------------------------------------------------------------
(* ReconciliationEngine: the registry and run_all_checks.  A record of a     *)
(* collection is a function from the keys it has to their values, a value    *)
(* being a string or None.  hashlib.sha256 is taken to be one-to-one on the  *)
(* texts hashed here: a digest is written as the text it is the digest of.   *)

\* record.get(key)
Field(record, key) == IF key \in DOMAIN record THEN record[key] ELSE None

\* record.get(key, "")
FieldOrEmpty(record, key) == IF key \in DOMAIN record THEN record[key] ELSE <<>>

\* loaded.get(entity_type, [])
DataOf(loaded, entity_type) ==
  IF entity_type \in DOMAIN loaded THEN loaded[entity_type] ELSE <<>>

\* the code points of the characters of an id, in increasing order
CodePointOrder ==
  <<"0", "1", "2", "3", "4", "5", "6", "7", "8", "9">> \o UpperLetters \o LowerLetters

CodePointRank(c) == CHOOSE i \in DOMAIN CodePointOrder : CodePointOrder[i] = c

\* a < b on str
RECURSIVE StrLess(_, _)
StrLess(a, b) ==
  IF b = <<>> THEN FALSE
  ELSE IF a = <<>> THEN TRUE
  ELSE IF Head(a) = Head(b) THEN StrLess(Tail(a), Tail(b))
  ELSE CodePointRank(Head(a)) < CodePointRank(Head(b))

\* the checks of _register_default_checks, in the order of registration,
\* the thresholds in thousandths
DefaultChecks ==
  <<[id |-> "count_students", category |-> "count", threshold |-> 1000, is_blocking |-> TRUE],
    [id |-> "count_guardians", category |-> "count", threshold |-> 1000, is_blocking |-> FALSE],
    [id |-> "count_enrollments", category |-> "count", threshold |-> 1000, is_blocking |-> FALSE],
    [id |-> "count_grades", category |-> "count", threshold |-> 990, is_blocking |-> FALSE],
    [id |-> "count_attendance", category |-> "count", threshold |-> 990, is_blocking |-> FALSE],
    [id |-> "ref_enrollment_student", category |-> "referential", threshold |-> 1000, is_blocking |-> TRUE],
    [id |-> "ref_grade_student", category |-> "referential", threshold |-> 1000, is_blocking |-> TRUE],
    [id |-> "ref_attendance_student", category |-> "referential", threshold |-> 1000, is_blocking |-> TRUE],
    [id |-> "ref_guardian_student", category |-> "referential", threshold |-> 1000, is_blocking |-> FALSE],
    [id |-> "complete_student_guardian", category |-> "completeness", threshold |-> 995, is_blocking |-> FALSE],
    [id |-> "complete_student_contact", category |-> "completeness", threshold |-> 990, is_blocking |-> FALSE],
    [id |-> "complete_student_enrollment", category |-> "completeness", threshold |-> 1000, is_blocking |-> FALSE],
    [id |-> "sample_student_data", category |-> "sampling", threshold |-> 990, is_blocking |-> FALSE],
    [id |-> "sample_grade_data", category |-> "sampling", threshold |-> 990, is_blocking |-> FALSE],
    [id |-> "integrity_hash", category |-> "integrity", threshold |-> 1000, is_blocking |-> TRUE]>>

\* the CheckResult of a runner that returns early
SkippedResult(check) == [check_id |-> check.id, status |-> "skipped"]

\* parent.get("student_id") or parent.get("id") or parent.get("guardian_id")
ParentIdOf(parent) ==
  OrElse(OrElse(Field(parent, "student_id"), Field(parent, "id")),
         Field(parent, "guardian_id"))

\* the parent_ids set of run_referential_check
ParentIds(parents) ==
  {Str(ParentIdOf(parents[i])) : i \in {j \in DOMAIN parents : Truthy(ParentIdOf(parents[j]))}}

\* fk_value and str(fk_value) in parent_ids
IsValidRef(child, foreign_key, parent_ids) ==
  /\ Truthy(Field(child, foreign_key))
  /\ Str(Field(child, foreign_key)) \in parent_ids

\* run_referential_check: the CheckResult
run_referential_check(target, child_type, parent_type, foreign_key, check) ==
  LET children == DataOf(target, child_type)
      parents == DataOf(target, parent_type)
      parent_ids == ParentIds(parents)
      valid_count ==
        Cardinality({i \in DOMAIN children : IsValidRef(children[i], foreign_key, parent_ids)})
  IN IF children = <<>>
     THEN SkippedResult(check)
     ELSE [check_id |-> check.id,
           status |-> IF ReachesThreshold(valid_count, Len(children), check.threshold)
                      THEN "passed" ELSE "failed",
           source_value |-> Len(children), target_value |-> valid_count]

\* value and str(value).strip() and str(value).upper() not in ["NULL", "N/A"]
IsComplete(value) ==
  /\ Truthy(value)
  /\ Strip(Str(value)) # <<>>
  /\ UpperStr(Str(value)) \notin {<<"N", "U", "L", "L">>, <<"N", "/", "A">>}

\* run_completeness_check: the CheckResult
run_completeness_check(target, entity_type, required_field, check) ==
  LET entities == DataOf(target, entity_type)
      complete_count ==
        Cardinality({i \in DOMAIN entities : IsComplete(Field(entities[i], required_field))})
  IN IF entities = <<>>
     THEN SkippedResult(check)
     ELSE [check_id |-> check.id,
           status |-> IF ReachesThreshold(complete_count, Len(entities), check.threshold)
                      THEN "passed" ELSE "warning",
           source_value |-> Len(entities), target_value |-> complete_count]

\* record.get("student_id") or record.get("id")
SampleKeyOf(record) == OrElse(Field(record, "student_id"), Field(record, "id"))

\* target_lookup.get(key): the last record of the target stored under the key
\* as <<record>>, and <<>> when there is none
TargetLookup(target, key) ==
  LET stored == {i \in DOMAIN target :
                   Truthy(SampleKeyOf(target[i])) /\ Str(SampleKeyOf(target[i])) = key}
  IN IF stored = {} THEN <<>>
     ELSE <<target[CHOOSE i \in stored : \A j \in stored : j <= i]>>

\* str(value).strip().lower() if value else ""
MatchValue(value) == IF Truthy(value) THEN LowerStr(Strip(Str(value))) ELSE <<>>

fields_to_check == {"first_name", "last_name", "email", "grade", "status"}

\* _records_match
records_match(source, target) ==
  \A name \in fields_to_check :
    (name \in DOMAIN source /\ name \in DOMAIN target) =>
      ~(/\ MatchValue(source[name]) # <<>>
        /\ MatchValue(target[name]) # <<>>
        /\ MatchValue(source[name]) # MatchValue(target[name]))

\* the samples random.sample(source, min(sample_size, len(source))) can draw,
\* each as the set of the positions drawn
SamplesOf(source, sample_size) ==
  {sample \in SUBSET DOMAIN source : Cardinality(sample) = Min(sample_size, Len(source))}

\* run_sampling_check on the sample drawn: the CheckResult
run_sampling_check(source_all, target_all, entity_type, sample, check) ==
  LET source == DataOf(source_all, entity_type)
      target == DataOf(target_all, entity_type)
      matches ==
        Cardinality({i \in sample :
          LET target_record == TargetLookup(target, Str(SampleKeyOf(source[i])))
          IN target_record # <<>> /\ records_match(source[i], target_record[1])})
  IN IF source = <<>> \/ target = <<>>
     THEN SkippedResult(check)
     ELSE [check_id |-> check.id,
           status |-> IF ReachesThreshold(matches, Cardinality(sample), check.threshold)
                      THEN "passed" ELSE "failed",
           source_value |-> Cardinality(sample), target_value |-> matches]

\* the sort key of _calculate_collection_hash:
\* str(r.get("student_id") or r.get("id", ""))
HashSortKey(record) ==
  Str(OrElse(Field(record, "student_id"), FieldOrEmpty(record, "id")))

\* sorted(): a record goes after the records whose key is not greater
RECURSIVE InsertByKey(_, _)
InsertByKey(sorted, record) ==
  IF sorted = <<>> THEN <<record>>
  ELSE IF StrLess(HashSortKey(record), HashSortKey(Head(sorted)))
  THEN <<record>> \o sorted
  ELSE <<Head(sorted)>> \o InsertByKey(Tail(sorted), record)

RECURSIVE SortedByKey(_, _)
SortedByKey(sorted, rest) ==
  IF rest = <<>> THEN sorted
  ELSE SortedByKey(InsertByKey(sorted, Head(rest)), Tail(rest))

\* f"{key}|{name}|" of one record
HashLine(record) ==
  Str(OrElse(Field(record, "student_id"), FieldOrEmpty(record, "id")))
    \o <<"|">> \o Str(FieldOrEmpty(record, "first_name"))
    \o Str(FieldOrEmpty(record, "last_name")) \o <<"|">>

RECURSIVE HashInput(_)
HashInput(sorted_records) ==
  IF sorted_records = <<>> THEN <<>>
  ELSE HashLine(Head(sorted_records)) \o HashInput(Tail(sorted_records))

\* _calculate_collection_hash: the digest, written as the text digested
calculate_collection_hash(collection) == HashInput(SortedByKey(<<>>, collection))

\* run_hash_check with a mismatch reported as a failure
run_hash_check_failing(source_all, target_all, entity_type, check) ==
  LET source == DataOf(source_all, entity_type)
      target == DataOf(target_all, entity_type)
      source_hash == calculate_collection_hash(source)
      target_hash == calculate_collection_hash(target)
  IN IF source = <<>> \/ target = <<>>
     THEN SkippedResult(check)
     ELSE [check_id |-> check.id,
           status |-> IF source_hash = target_hash THEN "passed" ELSE "failed",
           source_hash |-> source_hash, target_hash |-> target_hash]

\* run_hash_check: the CheckResult
run_hash_check(source_all, target_all, entity_type, check) ==
  LET source == DataOf(source_all, entity_type)
      target == DataOf(target_all, entity_type)
      source_hash == calculate_collection_hash(source)
      target_hash == calculate_collection_hash(target)
  IN IF source = <<>> \/ target = <<>>
     THEN SkippedResult(check)
     ELSE [check_id |-> check.id,
           status |-> IF source_hash = target_hash THEN "passed" ELSE "warning",
           source_hash |-> source_hash, target_hash |-> target_hash]

\* _run_check: the runner of the check id, on the samples the two sampling
\* checks draw
run_check(source, target, check, student_sample, grade_sample) ==
  CASE check.id = "count_students" -> run_count_check(source, target, "students", check)
    [] check.id = "count_guardians" -> run_count_check(source, target, "guardians", check)
    [] check.id = "count_enrollments" -> run_count_check(source, target, "enrollments", check)
    [] check.id = "count_grades" -> run_count_check(source, target, "grades", check)
    [] check.id = "count_attendance" -> run_count_check(source, target, "attendance", check)
    [] check.id = "ref_enrollment_student" ->
         run_referential_check(target, "enrollments", "students", "student_id", check)
    [] check.id = "ref_grade_student" ->
         run_referential_check(target, "grades", "students", "student_id", check)
    [] check.id = "ref_attendance_student" ->
         run_referential_check(target, "attendance", "students", "student_id", check)
    [] check.id = "ref_guardian_student" ->
         run_referential_check(target, "relationships", "students", "student_id", check)
    [] check.id = "complete_student_guardian" ->
         run_completeness_check(target, "students", "guardian_id", check)
    [] check.id = "complete_student_contact" ->
         run_completeness_check(target, "students", "email", check)
    [] check.id = "complete_student_enrollment" ->
         run_completeness_check(target, "students", "enrollment_id", check)
    [] check.id = "sample_student_data" ->
         run_sampling_check(source, target, "students", student_sample, check)
    [] check.id = "sample_grade_data" ->
         run_sampling_check(source, target, "grades", grade_sample, check)
    [] check.id = "integrity_hash" -> run_hash_check(source, target, "students", check)
    [] OTHER -> SkippedResult(check)

\* the sample sizes _run_check gives to run_sampling_check
StudentSampleSize == 10

GradeSampleSize == 20

\* run_all_checks: the results, one for each registered check in order
run_all_checks(registered, source, target, student_sample, grade_sample) ==
  [i \in DOMAIN registered |->
     run_check(source, target, registered[i], student_sample, grade_sample)]

\* the number of results with the status
StatusCount(all_results, status) ==
  Cardinality({i \in DOMAIN all_results : all_results[i].status = status})

\* any(c.id == r.check_id and c.is_blocking for c in self.checks)
IsBlockingResult(registered, result) ==
  \E i \in DOMAIN registered :
    registered[i].id = result.check_id /\ registered[i].is_blocking

\* get_summary with the two answers to a failure exchanged
get_summary_exchanged(registered, all_results) ==
  LET failed == StatusCount(all_results, "failed")
      blocking_failures ==
        Cardinality({i \in DOMAIN all_results :
                       /\ all_results[i].status = "failed"
                       /\ IsBlockingResult(registered, all_results[i])})
  IN [total_checks |-> Len(all_results),
      passed |-> StatusCount(all_results, "passed"),
      failed |-> failed,
      warnings |-> StatusCount(all_results, "warning"),
      skipped |-> StatusCount(all_results, "skipped"),
      blocking_failures |-> blocking_failures,
      pass_rate |-> IF all_results = <<>> THEN <<0, 1>>
                    ELSE <<StatusCount(all_results, "passed"), Len(all_results)>>,
      overall_status |-> IF failed = 0 THEN "PASSED"
                         ELSE IF blocking_failures > 0 THEN "WARNING" ELSE "BLOCKED"]

\* get_summary, the pass rate as the pair of passed and total
get_summary(registered, all_results) ==
  LET failed == StatusCount(all_results, "failed")
      blocking_failures ==
        Cardinality({i \in DOMAIN all_results :
                       /\ all_results[i].status = "failed"
                       /\ IsBlockingResult(registered, all_results[i])})
  IN [total_checks |-> Len(all_results),
      passed |-> StatusCount(all_results, "passed"),
      failed |-> failed,
      warnings |-> StatusCount(all_results, "warning"),
      skipped |-> StatusCount(all_results, "skipped"),
      blocking_failures |-> blocking_failures,
      pass_rate |-> IF all_results = <<>> THEN <<0, 1>>
                    ELSE <<StatusCount(all_results, "passed"), Len(all_results)>>,
      overall_status |-> IF failed = 0 THEN "PASSED"
                         ELSE IF blocking_failures > 0 THEN "BLOCKED" ELSE "WARNING"]

----------------------------------------------------------------------------
(* The issue lists: find_overlaps, find_duplicates and get_stats of the      *)
(* three processors                                                           *)

\* the pairs <<i, j>> with i < j of the positions of a list, in the order of
\* the two nested loops
RECURSIVE PairsFrom(_, _, _)
PairsFrom(i, j, n) ==
  IF i >= n THEN <<>>
  ELSE IF j > n THEN PairsFrom(i + 1, i + 2, n)
  ELSE <<(<<i, j>>)>> \o PairsFrom(i, j + 1, n)

\* EnrollmentProcessor.find_overlaps: the issues it appends, one for each
\* pair that overlaps by at least one day
RECURSIVE OverlapIssuesOf(_, _, _)
OverlapIssuesOf(spans, pairs, now) ==
  IF pairs = <<>> THEN <<>>
  ELSE LET e1 == spans[Head(pairs)[1]]
           e2 == spans[Head(pairs)[2]]
           found == overlaps_with(e1, e2, now)
       IN (IF found[1] /\ found[2] > 0
           THEN <<[type |-> "overlap", enrollment1 |-> e1, enrollment2 |-> e2,
                   overlap_days |-> found[2]]>>
           ELSE <<>>)
          \o OverlapIssuesOf(spans, Tail(pairs), now)

\* find_overlaps on a list of issues it starts anew
find_overlaps_anew(found, spans, now) ==
  OverlapIssuesOf(spans, PairsFrom(1, 2, Len(spans)), now)

\* self.issues after find_overlaps
find_overlaps(found, spans, now) ==
  found \o OverlapIssuesOf(spans, PairsFrom(1, 2, Len(spans)), now)

\* EnrollmentProcessor.get_stats
enrollment_stats(spans, found) ==
  [total_students |-> IF spans = <<>> THEN 0 ELSE 1,
   total_enrollments |-> Len(spans),
   issues_found |-> Len(found),
   overlaps |-> Cardinality({i \in DOMAIN found : found[i].type = "overlap"}),
   gaps |-> Cardinality({i \in DOMAIN found : found[i].type = "gap"})]

\* GradeProcessor.find_duplicates: the issues it appends, one for each pair
\* of the same course, term and school year
RECURSIVE DuplicateGradeIssues(_, _)
DuplicateGradeIssues(grade_list, pairs) ==
  IF pairs = <<>> THEN <<>>
  ELSE LET g1 == grade_list[Head(pairs)[1]]
           g2 == grade_list[Head(pairs)[2]]
       IN (IF /\ g1.course_code = g2.course_code
              /\ g1.term = g2.term
              /\ g1.school_year = g2.school_year
           THEN <<[type |-> "duplicate_grade", course_code |-> g1.course_code,
                   term |-> g1.term]>>
           ELSE <<>>)
          \o DuplicateGradeIssues(grade_list, Tail(pairs))

find_duplicate_grades(grade_list) ==
  DuplicateGradeIssues(grade_list, PairsFrom(1, 2, Len(grade_list)))

\* TranscriptBuilder.get_stats
grade_stats(grade_list, built, found) ==
  [total_students |-> IF grade_list = <<>> THEN 0 ELSE 1,
   total_grades |-> Len(grade_list),
   transcripts_built |-> Len(built),
   issues_found |-> Len(found),
   invalid_grades |-> Cardinality({i \in DOMAIN found : found[i].type = "invalid_grade"}),
   duplicate_grades |->
     Cardinality({i \in DOMAIN found : found[i].type = "duplicate_grade"})]

\* AttendanceProcessor.find_duplicates: the issues it appends, one for each
\* record whose date an earlier record has; no record carries a period, so
\* the key of a record is its date and 'daily'
find_duplicate_attendance(stored) ==
  LET repeated == SelectSeq([i \in DOMAIN stored |-> i],
                            LAMBDA i : \E j \in 1 .. i - 1 : stored[j].date = stored[i].date)
  IN [k \in DOMAIN repeated |->
        [type |-> "duplicate_attendance", date |-> stored[repeated[k]].date]]

\* AttendanceProcessor.get_stats
attendance_stats(stored, summaries, aggregated, found, unmapped) ==
  [total_students |-> IF stored = <<>> THEN 0 ELSE 1,
   total_records |-> Len(stored),
   daily_summaries |-> Cardinality(DOMAIN summaries),
   aggregates_calculated |-> Len(aggregated),
   issues_found |-> Len(found),
   unmapped_codes |-> unmapped,
   unmapped_code_count |-> Cardinality(unmapped)]

----------------------------------------------------------------------------
(* CalendarNormalizer.parse_school_year *)

\* every character of the text is a digit, and there are n of them
IsDigitText(text, n) == Len(text) = n /\ \A i \in DOMAIN text : IsDigit(text[i])

DigitTexts == <<"0", "1", "2", "3", "4", "5", "6", "7", "8", "9">>

\* str(n) for a natural number
RECURSIVE NatText(_)
NatText(n) ==
  IF n < 10 THEN <<DigitTexts[n + 1]>>
  ELSE NatText(n \div 10) \o <<DigitTexts[(n % 10) + 1]>>

\* re.match(r'^\d{4}-\d{4}$', text)
IsYearRange(text) ==
  /\ Len(text) = 9
  /\ IsDigitText(SubSeq(text, 1, 4), 4)
  /\ text[5] = "-"
  /\ IsDigitText(SubSeq(text, 6, 9), 4)

\* re.match(r'^(\d{2})-(\d{2})$', text)
IsShortRange(text) ==
  /\ Len(text) = 5
  /\ IsDigitText(SubSeq(text, 1, 2), 2)
  /\ text[3] = "-"
  /\ IsDigitText(SubSeq(text, 4, 5), 2)

\* century = "20" if int(start) < 50 else "19"
CenturyOf(start, end) ==
  IF NatValue(start) < 50 THEN <<"2", "0">> ELSE <<"1", "9">>

parse_school_year(year_text) ==
  LET year_str == Strip(Str(year_text))
  IN IF IsYearRange(year_str) THEN year_str
     ELSE IF IsDigitText(year_str, 4)
     THEN NatText(NatValue(year_str)) \o <<"-">> \o NatText(NatValue(year_str) + 1)
     ELSE IF IsShortRange(year_str)
     THEN LET start == SubSeq(year_str, 1, 2)
              end == SubSeq(year_str, 4, 5)
          IN CenturyOf(start, end) \o start \o <<"-">> \o CenturyOf(start, end) \o end
     ELSE year_str

----------------------------------------------------------------------------
(* Initial states of the components *)

\* no call made yet: a call record has the fields of CallRecord
NoResolve == [n |-> 0]

MatchInit ==
  matchCall = [done |-> FALSE]

IdentityInit ==
  /\ resolver = EmptyResolver
  /\ returned = <<>>
  /\ lastResolve = NoResolve

SecondInit ==
  /\ resolverB = EmptyResolver
  /\ lastResolveB = NoResolve

NoOp == [op |-> "none", given |-> 0, result |-> <<>>]

\* the processor of a run that makes no enrollment call
EnrollIdle ==
  /\ enrollments = <<>>
  /\ issues = <<>>
  /\ today = 1
  /\ lastOp = NoOp
  /\ added = <<>>

\* the grade processor of a run that processes no grade
GradeIdle ==
  /\ grades = <<>>
  /\ gradeIssues = <<>>
  /\ transcripts = <<>>
  /\ gradeOp = [op |-> "none"]

\* the attendance processor of a run that processes no attendance record
AttendIdle ==
  /\ records = <<>>
  /\ daily_summaries = <<>>
  /\ aggregates = <<>>
  /\ attendIssues = <<>>
  /\ custom_mappings = <<>>
  /\ unmapped_codes = {}
  /\ attendOp = [op |-> "none"]

\* the reconciliation engine of a run that loads no data
ReconIdle ==
  /\ source_data = <<>>
  /\ target_data = <<>>
  /\ checks = DefaultChecks
  /\ results = <<>>
  /\ checkOp = [op |-> "none"]

----------------------------------------------------------------------------
(* Specification SpecMatch: one match_records call on any two person records *)

MatchRecords ==
  /\ ~matchCall.done
  /\ \E record1 \in PersonRecords, record2 \in PersonRecords :
       matchCall' = [done |-> TRUE, record1 |-> record1, record2 |-> record2,
                     result |-> match_records(record1, record2)]
  /\ UNCHANGED <<identityVars, secondVars, enrollVars, gradeVars, attendVars, reconVars>>

SpecMatchInit == MatchInit /\ IdentityInit /\ SecondInit /\ EnrollIdle
  /\ GradeIdle /\ AttendIdle /\ ReconIdle

SpecMatchNext == MatchRecords

SpecMatch == SpecMatchInit /\ [][SpecMatchNext]_vars

----------------------------------------------------------------------------
(* Specification SpecIdentity: resolve_identity calls on one resolver *)

MaxResolves == 3

ResolveSources == {"sis", "lms"}

ResolveInputs ==
  {Person(sid, st, None, fn, Lee, <<Dob1, None>>, None) :
     sid \in {<<"1">>, <<"2">>}, st \in {None, S1, <<" ">> \o S1},
     fn \in {Ann, Bob}}

\* one call: the resolver is updated and the call and its result are recorded
CallRecord(last, seenBefore, record, source, out) ==
  [n |-> last.n + 1, source |-> source, source_id |-> SourceIdOf(record),
   record |-> record, golden_id |-> out.golden_id, is_new |-> out.is_new,
   seen |-> seenBefore]

ResolveIdentity ==
  /\ lastResolve.n < MaxResolves
  /\ \E record \in ResolveInputs, source \in ResolveSources :
       LET out == resolve_identity(resolver, record, source)
           pair == <<source, SourceIdOf(record)>>
       IN /\ resolver' = out.resolver
          /\ returned' = IF pair \in DOMAIN returned THEN returned
                         ELSE DictPut(returned, pair, out.golden_id)
          /\ lastResolve' = CallRecord(lastResolve, pair \in DOMAIN returned,
                                       record, source, out)
  /\ UNCHANGED <<matchVars, secondVars, enrollVars, gradeVars, attendVars, reconVars>>

SpecIdentityInit == MatchInit /\ IdentityInit /\ SecondInit /\ EnrollIdle
  /\ GradeIdle /\ AttendIdle /\ ReconIdle

SpecIdentityNext == ResolveIdentity

SpecIdentity == SpecIdentityInit /\ [][SpecIdentityNext]_vars

----------------------------------------------------------------------------
(* Specification SpecGolden: two separate, empty resolvers resolve one record each *)

ResolveOnFirst ==
  /\ lastResolve.n = 0
  /\ \E record \in PersonRecords :
       LET out == resolve_identity(resolver, record, "sis")
       IN /\ resolver' = out.resolver
          /\ returned' = DictPut(returned, <<"sis", SourceIdOf(record)>>, out.golden_id)
          /\ lastResolve' = CallRecord(lastResolve, FALSE, record, "sis", out)
  /\ UNCHANGED <<matchVars, secondVars, enrollVars, gradeVars, attendVars, reconVars>>

ResolveOnSecond ==
  /\ lastResolveB.n = 0
  /\ \E record \in PersonRecords :
       LET out == resolve_identity(resolverB, record, "sis")
       IN /\ resolverB' = out.resolver
          /\ lastResolveB' = CallRecord(lastResolveB, FALSE, record, "sis", out)
  /\ UNCHANGED <<matchVars, identityVars, enrollVars, gradeVars, attendVars, reconVars>>

SpecGoldenInit == MatchInit /\ IdentityInit /\ SecondInit /\ EnrollIdle
  /\ GradeIdle /\ AttendIdle /\ ReconIdle

SpecGoldenNext == ResolveOnFirst \/ ResolveOnSecond

SpecGolden == SpecGoldenInit /\ [][SpecGoldenNext]_vars

----------------------------------------------------------------------------
(* Specification SpecEnroll: add_enrollment and normalize_enrollments on the    *)
(* spans of one student                                                        *)

MaxDay == 3

MaxSpans == 3

Schools == {"A", "B"}

IsValidSpan(span) == span.end_date = NoDate \/ span.start_date <= span.end_date

\* enrollment records over the days first .. last: a missing start date is NoDate
RecordsOver(schools, first, last) ==
  {Span(school_id, start_date, end_date) :
     school_id \in schools,
     start_date \in (first .. last) \cup {NoDate},
     end_date \in (first .. last) \cup {NoDate}}

\* self.enrollments[student_id].append(enrollment), for a record whose span is
\* well formed (start_date <= end_date, or no end date)
AddFrom(record, maxSpans) ==
  /\ Len(enrollments) < maxSpans
  /\ LET enrollment == add_enrollment(record, today)
     IN /\ IsValidSpan(enrollment)
        /\ enrollments' = Append(enrollments, enrollment)
  /\ lastOp' = [op |-> "add_enrollment", given |-> Len(enrollments), result |-> <<>>]
  /\ UNCHANGED <<issues, today>>
  /\ UNCHANGED <<matchVars, identityVars, secondVars, gradeVars, attendVars, reconVars>>

EnrollRecords == RecordsOver(Schools, 1, MaxDay)

AddEnrollment ==
  /\ \E record \in EnrollRecords : AddFrom(record, MaxSpans)
  /\ UNCHANGED added

NormalizeEnrollments ==
  /\ LET resolved == normalize_enrollments(enrollments, today)
     IN /\ enrollments' = resolved
        /\ lastOp' = [op |-> "normalize_enrollments", given |-> Len(enrollments),
                      result |-> resolved]
  /\ UNCHANGED <<issues, today, added>>
  /\ UNCHANGED <<matchVars, identityVars, secondVars, gradeVars, attendVars, reconVars>>

EnrollInit ==
  /\ enrollments = <<>>
  /\ issues = <<>>
  /\ today \in 1 .. MaxDay
  /\ lastOp = NoOp
  /\ added = <<>>

SpecEnrollInit ==
  MatchInit /\ IdentityInit /\ SecondInit /\ EnrollInit
  /\ GradeIdle /\ AttendIdle /\ ReconIdle

SpecEnrollNext == AddEnrollment \/ NormalizeEnrollments

SpecEnroll == SpecEnrollInit /\ [][SpecEnrollNext]_vars

----------------------------------------------------------------------------
(* Specification SpecGap: add_enrollment and find_gaps over a longer calendar *)

MaxGapDay == 8

MaxGapSpans == 2

MaxIssues == 2

GapRecords == RecordsOver({"A"}, 1, MaxGapDay)

AddGapEnrollment ==
  /\ \E record \in GapRecords : AddFrom(record, MaxGapSpans)
  /\ UNCHANGED added

RECURSIVE GapIssues(_)
GapIssues(gaps) ==
  IF gaps = <<>> THEN <<>> ELSE <<GapIssue(Head(gaps))>> \o GapIssues(Tail(gaps))

FindGapsUpTo(maxIssues) ==
  /\ Len(issues) < maxIssues
  /\ LET gaps == find_gaps(enrollments)
     IN /\ issues' = issues \o GapIssues(gaps)
        /\ lastOp' = [op |-> "find_gaps", given |-> Len(enrollments), result |-> gaps]
  /\ UNCHANGED <<enrollments, today, added>>
  /\ UNCHANGED <<matchVars, identityVars, secondVars, gradeVars, attendVars, reconVars>>

FindGaps == FindGapsUpTo(MaxIssues)

SpecGapInit == MatchInit /\ IdentityInit /\ SecondInit /\ EnrollIdle
  /\ GradeIdle /\ AttendIdle /\ ReconIdle

SpecGapNext == AddGapEnrollment \/ FindGaps

SpecGap == SpecGapInit /\ [][SpecGapNext]_vars

----------------------------------------------------------------------------
(* Specification SpecActive: add_enrollment, normalize_enrollments and         *)
(* get_active_enrollment on the spans of one student, the order of addition    *)
(* kept in added                                                               *)

MaxActiveDay == 2

MaxActiveSpans == 2

ActiveRecords == RecordsOver(Schools, 1, MaxActiveDay)

\* add_enrollment, the span built also appended to the history
AddTracked ==
  /\ Len(added) < MaxActiveSpans
  /\ \E record \in ActiveRecords :
       /\ AddFrom(record, MaxActiveSpans)
       /\ added' = Append(added, add_enrollment(record, today))

AsOfInputs == (1 .. MaxDay) \cup {NoDate}

GetActiveEnrollment ==
  /\ \E as_of \in AsOfInputs :
       lastOp' = [op |-> "get_active_enrollment", given |-> Len(enrollments),
                  as_of |-> as_of,
                  result |-> get_active_enrollment(enrollments, as_of, today)]
  /\ UNCHANGED <<enrollments, issues, today, added>>
  /\ UNCHANGED <<matchVars, identityVars, secondVars, gradeVars, attendVars, reconVars>>

SpecActiveInit ==
  MatchInit /\ IdentityInit /\ SecondInit /\ EnrollInit
  /\ GradeIdle /\ AttendIdle /\ ReconIdle

SpecActiveNext == AddTracked \/ NormalizeEnrollments \/ GetActiveEnrollment

SpecActive == SpecActiveInit /\ [][SpecActiveNext]_vars

----------------------------------------------------------------------------
(* Specification SpecGrades: detect_grade_type, process_grade and              *)
(* build_transcript on the grades of one student                               *)

MaxGrades == 2

\* raw grades: a letter, pass/fail words, withdrawn and incomplete marks and
\* a number of the 4.0 scale
GradeTexts ==
  {<<"A">>,
   <<"P", "A", "S", "S">>,
   <<"P">>,
   <<"N", "P">>,
   <<"I">>,
   <<"W">>,
   <<"3", ".", "5">>}

\* course code, name and term of the courses; the first two differ in code and
\* term, the last one is an AP course
Courses ==
  {[COURSE_CODE |-> <<"e", "n", "g", "-", "1">>, COURSE_NAME |-> <<"e", "n", "g", "l", "i", "s", "h">>, SEMESTER |-> <<"s", "1">>],
   [COURSE_CODE |-> <<"e", "n", "g">>, COURSE_NAME |-> <<"e", "n", "g", "l", "i", "s", "h">>, SEMESTER |-> <<"1", "-", "s", "1">>],
   [COURSE_CODE |-> <<"b", "i", "o">>, COURSE_NAME |-> <<"a", "p", " ", "b", "i", "o">>, SEMESTER |-> <<"s", "1">>]}

CreditTexts == {<<"3">>}

SchoolYear == <<"2", "0", "2", "4">>

\* the source records of the grades
RecordsOf(courses, gradeTexts, creditTexts) ==
  {[COURSE_CODE |-> course.COURSE_CODE, COURSE_NAME |-> course.COURSE_NAME,
    SEMESTER |-> course.SEMESTER, YEAR |-> SchoolYear,
    GRADE |-> grade, CREDITS |-> credits] :
     course \in courses, grade \in gradeTexts, credits \in creditTexts}

GradeInputs == RecordsOf(Courses, GradeTexts, CreditTexts)

\* process_grade: the record is stored, an invalid grade is tracked
ProcessFrom(record, maxGrades) ==
  /\ Len(grades) < maxGrades
  /\ LET grade_record == GradeRecordOf(record)
     IN /\ grades' = Append(grades, grade_record)
        /\ gradeIssues' = gradeIssues \o InvalidGradeIssues(grade_record)
        /\ gradeOp' = [op |-> "process_grade", record |-> record, result |-> grade_record]
  /\ UNCHANGED transcripts
  /\ UNCHANGED <<matchVars, identityVars, secondVars, enrollVars, attendVars, reconVars>>

ProcessGrade == \E record \in GradeInputs : ProcessFrom(record, MaxGrades)

\* build_transcript: the transcript is stored in processor.transcripts
BuildTranscript ==
  /\ LET transcript == build_transcript(grades)
     IN /\ transcripts' = <<transcript>>
        /\ gradeOp' = [op |-> "build_transcript", given |-> Len(grades),
                       result |-> transcript]
  /\ UNCHANGED <<grades, gradeIssues>>
  /\ UNCHANGED <<matchVars, identityVars, secondVars, enrollVars, attendVars, reconVars>>

\* the raw values given to detect_grade_type
DetectTexts ==
  GradeTexts \cup
  {<<"c", "+">>,
   <<"F">>,
   <<"8", "5">>,
   <<"B", "-">>,
   <<"E">>,
   <<"F", "A", "I", "L">>,
   <<"S">>,
   <<"U">>,
   <<"0">>,
   <<"5">>,
   <<"1", "0", "0">>,
   <<"1", "0", "0", ".", "5">>,
   <<"9", "5", "%">>,
   <<"-", "1">>,
   <<>>,
   <<"N", "/", "A">>,
   <<"n", "u", "l", "l">>,
   <<"A", "+", "-">>,
   <<"X", "Y", "Z">>,
   <<" ", "a", " ">>}

DetectGradeType ==
  /\ \E grade \in DetectTexts :
       gradeOp' = [op |-> "detect_grade_type", grade |-> grade,
                   result |-> detect_grade_type(grade)]
  /\ UNCHANGED <<grades, gradeIssues, transcripts>>
  /\ UNCHANGED <<matchVars, identityVars, secondVars, enrollVars, attendVars, reconVars>>

SpecGradesInit == MatchInit /\ IdentityInit /\ SecondInit /\ EnrollIdle
  /\ GradeIdle /\ AttendIdle /\ ReconIdle

SpecGradesNext == ProcessGrade \/ BuildTranscript \/ DetectGradeType

SpecGrades == SpecGradesInit /\ [][SpecGradesNext]_vars

----------------------------------------------------------------------------
(* Specification SpecGpa: process_grade and build_transcript over courses with *)
(* positive, zero and negative credits                                         *)

MaxGpaGrades == 2

GpaGradeTexts == {<<"A">>, <<"B", "+">>}

GpaCourses ==
  {[COURSE_CODE |-> <<"e", "n", "g">>, COURSE_NAME |-> <<"e", "n", "g", "l", "i", "s", "h">>, SEMESTER |-> <<"s", "1">>],
   [COURSE_CODE |-> <<"b", "i", "o">>, COURSE_NAME |-> <<"a", "p", " ", "b", "i", "o">>, SEMESTER |-> <<"s", "1">>]}

GpaCreditTexts == {<<"1">>, <<"2">>, <<"0">>, <<"-", "1">>}

GpaInputs == RecordsOf(GpaCourses, GpaGradeTexts, GpaCreditTexts)

ProcessGpaGrade == \E record \in GpaInputs : ProcessFrom(record, MaxGpaGrades)

SpecGpaInit == MatchInit /\ IdentityInit /\ SecondInit /\ EnrollIdle
  /\ GradeIdle /\ AttendIdle /\ ReconIdle

SpecGpaNext == ProcessGpaGrade \/ BuildTranscript

SpecGpa == SpecGpaInit /\ [][SpecGpaNext]_vars

----------------------------------------------------------------------------
(* Specification SpecCodes: add_custom_mapping and process_record on the       *)
(* records of one student                                                      *)

MaxCodeRecords == 2

\* status codes: two of the static table (one to lower-case and strip), one of
\* no table, an empty one and a blank one
StatusTexts == {<<"P">>, <<" ", "L", "a", "t", "e", " ">>, <<"X">>, <<>>, <<" ">>}

\* the source records of the dates and status codes
AttendRecordsOf(dates, statusTexts) ==
  {[Date |-> day, Status |-> status] : day \in dates, status \in statusTexts}

CodeRecords == AttendRecordsOf({1}, StatusTexts)

\* process_record: the record is stored; a code that is not mapped is tracked
\* by the mapper and, unless it is empty, as an issue
ProcessRecordFrom(record, maxRecords) ==
  /\ Len(records) < maxRecords
  /\ LET attendance_record == AttendanceRecordOf(record, custom_mappings, today)
     IN /\ records' = Append(records, attendance_record)
        /\ attendOp' = [op |-> "process_record", record |-> record,
                        result |-> attendance_record]
  /\ attendIssues' = attendIssues \o UnmappedCodeIssues(record, custom_mappings)
  /\ unmapped_codes' =
       unmapped_codes \cup map_code(custom_mappings, Strip(Str(record.Status))).unmapped
  /\ UNCHANGED <<daily_summaries, aggregates, custom_mappings>>
  /\ UNCHANGED <<matchVars, identityVars, secondVars, enrollVars, gradeVars, reconVars>>

ProcessCodeRecord == \E record \in CodeRecords : ProcessRecordFrom(record, MaxCodeRecords)

\* the codes given a custom status: one of the static table, one of no table
\* and a blank one
CustomCodes == {<<"P">>, <<"x">>, <<" ">>}

CustomStatuses == {"Tardy", "Excused"}

AddCustomMapping ==
  /\ \E code \in CustomCodes, status \in CustomStatuses :
       /\ custom_mappings' = add_custom_mapping(custom_mappings, code, status)
       /\ attendOp' = [op |-> "add_custom_mapping", code |-> code, status |-> status]
  /\ UNCHANGED <<records, daily_summaries, aggregates, attendIssues, unmapped_codes>>
  /\ UNCHANGED <<matchVars, identityVars, secondVars, enrollVars, gradeVars, reconVars>>

SpecCodesInit == MatchInit /\ IdentityInit /\ SecondInit /\ EnrollIdle
  /\ GradeIdle /\ AttendIdle /\ ReconIdle

SpecCodesNext == ProcessCodeRecord \/ AddCustomMapping

SpecCodes == SpecCodesInit /\ [][SpecCodesNext]_vars

----------------------------------------------------------------------------
(* Specification SpecDaily: process_record and build_daily_summary on the      *)
(* period records of one student on one date                                   *)

MaxPeriods == 3

\* the codes of Present, Absent, Tardy and Excused
PeriodCodes == {<<"P">>, <<"A">>, <<"T">>, <<"E">>}

PeriodRecords == AttendRecordsOf({1}, PeriodCodes)

ProcessPeriodRecord == \E record \in PeriodRecords : ProcessRecordFrom(record, MaxPeriods)

\* build_daily_summary: the summary of the day is stored in daily_summaries
BuildSummaryOn(target_date) ==
  /\ LET summary == build_daily_summary(records, target_date)
     IN /\ daily_summaries' = WithSummary(daily_summaries, summary)
        /\ attendOp' = [op |-> "build_daily_summary", date |-> target_date,
                        result |-> summary]
  /\ UNCHANGED <<records, aggregates, attendIssues, custom_mappings, unmapped_codes>>
  /\ UNCHANGED <<matchVars, identityVars, secondVars, enrollVars, gradeVars, reconVars>>

\* the date of the records and a date without records
SummaryDates == {1, 2}

BuildDailySummary == \E target_date \in SummaryDates : BuildSummaryOn(target_date)

SpecDailyInit == MatchInit /\ IdentityInit /\ SecondInit /\ EnrollIdle
  /\ GradeIdle /\ AttendIdle /\ ReconIdle

SpecDailyNext == ProcessPeriodRecord \/ BuildDailySummary

SpecDaily == SpecDailyInit /\ [][SpecDailyNext]_vars

----------------------------------------------------------------------------
(* Specification SpecAggregate: process_record and calculate_aggregate on the  *)
(* records of one student over a few dates                                     *)

MaxAttendDay == 3

MaxAttendRecords == 3

\* the codes of Present, Absent and Tardy
DayCodes == {<<"P">>, <<"A">>, <<"T">>}

\* the records: any of the codes on the first day, Present or Absent on the others
DayRecords ==
  AttendRecordsOf({1}, DayCodes)
    \cup AttendRecordsOf(2 .. MaxAttendDay, DayCodes \ {<<"T">>})

ProcessDayRecord == \E record \in DayRecords : ProcessRecordFrom(record, MaxAttendRecords)

\* calculate_aggregate: the aggregate is stored in aggregates, the summaries of
\* its days in daily_summaries
AggregateOver(start, end) ==
  /\ LET aggregate == calculate_aggregate(records, start, end)
     IN /\ aggregates' = <<aggregate>>
        /\ attendOp' = [op |-> "calculate_aggregate", result |-> aggregate]
  /\ daily_summaries' = SummariesAfterAggregate(daily_summaries, records, start, end)
  /\ UNCHANGED <<records, attendIssues, custom_mappings, unmapped_codes>>
  /\ UNCHANGED <<matchVars, identityVars, secondVars, enrollVars, gradeVars, reconVars>>

\* the date ranges, start and end: all the days, and all but the first
DayRanges == {<<1, MaxAttendDay>>, <<2, MaxAttendDay>>}

CalculateAggregate == \E range \in DayRanges : AggregateOver(range[1], range[2])

SpecAggregateInit == MatchInit /\ IdentityInit /\ SecondInit /\ EnrollIdle
  /\ GradeIdle /\ AttendIdle /\ ReconIdle

SpecAggregateNext == ProcessDayRecord \/ CalculateAggregate

SpecAggregate == SpecAggregateInit /\ [][SpecAggregateNext]_vars

----------------------------------------------------------------------------
(* Specification SpecAttend: process_record, build_daily_summary,              *)
(* calculate_aggregate and verify_totals in any order                          *)

MaxStoredRecords == 2

MaxAttendIssues == 1

\* the codes of Present and Absent, on the first two days
StoredRecords == AttendRecordsOf({1, 2}, {<<"P">>, <<"A">>})

ProcessStoredRecord ==
  \E record \in StoredRecords : ProcessRecordFrom(record, MaxStoredRecords)

CalculateWholeAggregate == AggregateOver(1, 2)

\* the totals of the source system: present days and absent days
ExpectedTotals == (0 .. 1) \X (0 .. 1)

\* verify_totals: the stored aggregate against the expected totals; a mismatch
\* is tracked as an issue
VerifyTotalsUpTo(maxIssues) ==
  /\ Len(attendIssues) < maxIssues
  /\ \E expected \in ExpectedTotals :
       IF aggregates = <<>>
       THEN /\ attendOp' = [op |-> "verify_totals", expected |-> expected,
                            result |-> [verified |-> FALSE,
                                        error |-> "No aggregate data found"]]
            /\ UNCHANGED attendIssues
       ELSE LET result == verify_totals(aggregates[1], expected[1], expected[2])
            IN /\ attendOp' = [op |-> "verify_totals", expected |-> expected,
                               result |-> result]
               /\ attendIssues' =
                    IF result.verified THEN attendIssues
                    ELSE Append(attendIssues, [type |-> "total_mismatch", result |-> result])
  /\ UNCHANGED <<records, daily_summaries, aggregates, custom_mappings, unmapped_codes>>
  /\ UNCHANGED <<matchVars, identityVars, secondVars, enrollVars, gradeVars, reconVars>>

VerifyTotals == VerifyTotalsUpTo(MaxAttendIssues)

SpecAttendInit == MatchInit /\ IdentityInit /\ SecondInit /\ EnrollIdle
  /\ GradeIdle /\ AttendIdle /\ ReconIdle

SpecAttendNext ==
  ProcessStoredRecord \/ BuildDailySummary \/ CalculateWholeAggregate \/ VerifyTotals

SpecAttend == SpecAttendInit /\ [][SpecAttendNext]_vars

----------------------------------------------------------------------------
(* Specification SpecCount: set_source_data, set_target_data and the count     *)
(* checks on the students and the grades                                       *)

MaxRecordCount == 100

\* the lengths of the lists: empty, one record, all but one record, all records
DataSizes == {0, 1, MaxRecordCount - 1, MaxRecordCount}

DataLists == {[i \in 1 .. size |-> i] : size \in DataSizes}

EntityTypes == {"students", "grades"}

SetSourceData ==
  /\ \E entity_type \in EntityTypes, data \in DataLists :
       /\ source_data' = WithData(source_data, entity_type, data)
       /\ checkOp' = [op |-> "set_source_data", entity_type |-> entity_type]
  /\ UNCHANGED <<target_data, checks, results>>
  /\ UNCHANGED <<matchVars, identityVars, secondVars, enrollVars, gradeVars, attendVars>>

SetTargetData ==
  /\ \E entity_type \in EntityTypes, data \in DataLists :
       /\ target_data' = WithData(target_data, entity_type, data)
       /\ checkOp' = [op |-> "set_target_data", entity_type |-> entity_type]
  /\ UNCHANGED <<source_data, checks, results>>
  /\ UNCHANGED <<matchVars, identityVars, secondVars, enrollVars, gradeVars, attendVars>>

\* _run_check on a count check: run_count_check on its entity type
RunCountCheck ==
  /\ \E check \in CountChecks :
       checkOp' = [op |-> "run_count_check", check |-> check,
                   result |-> run_count_check(source_data, target_data,
                                              check.entity_type, check)]
  /\ UNCHANGED <<source_data, target_data, checks, results>>
  /\ UNCHANGED <<matchVars, identityVars, secondVars, enrollVars, gradeVars, attendVars>>

SpecCountInit == MatchInit /\ IdentityInit /\ SecondInit /\ EnrollIdle
  /\ GradeIdle /\ AttendIdle /\ ReconIdle

SpecCountNext == SetSourceData \/ SetTargetData \/ RunCountCheck

SpecCount == SpecCountInit /\ [][SpecCountNext]_vars

----------------------------------------------------------------------------
(* Specification SpecRecon: the data of the entity types are loaded, a check   *)
(* may be registered, then run_all_checks and get_summary                      *)

StudentFull ==
  [student_id |-> <<"1">>, first_name |-> <<"a">>, email |-> <<"e">>,
   guardian_id |-> <<"g">>, enrollment_id |-> <<"n">>]

\* the same student under another first name, with no guardian, contact or enrollment
StudentBare == [student_id |-> <<"1">>, first_name |-> <<"b">>]

GuardianOne == [guardian_id |-> <<"g">>]

\* a child record of student 1 and a child record of a student nobody has
ChildOfOne == [id |-> <<"c">>, student_id |-> <<"1">>]

ChildOfNine == [id |-> <<"c">>, student_id |-> <<"9">>]

\* the collections a source system may hold for each entity type
SourceChoices ==
  [students |-> {<<StudentFull>>, <<StudentBare>>},
   guardians |-> {<<GuardianOne>>},
   enrollments |-> {<<ChildOfOne>>},
   grades |-> {<<ChildOfOne>>},
   attendance |-> {<<ChildOfOne>>}]

\* the collections the target may hold for each entity type
TargetChoices ==
  [students |-> {<<>>, <<StudentFull>>, <<StudentBare>>},
   guardians |-> {<<GuardianOne>>},
   enrollments |-> {<<ChildOfOne>>, <<ChildOfNine>>},
   grades |-> {<<ChildOfOne>>, <<ChildOfNine>>},
   attendance |-> {<<ChildOfNine>>},
   relationships |-> {<<ChildOfNine>>}]

SourceTypes == DOMAIN SourceChoices

TargetTypes == DOMAIN TargetChoices

\* a check registered by the caller, which _run_check has no runner for
CustomCheck ==
  [id |-> "custom", category |-> "domain", threshold |-> 1000, is_blocking |-> TRUE]

\* set_source_data before the first run
LoadSourceData ==
  /\ results = <<>>
  /\ \E entity_type \in SourceTypes :
       \E data \in SourceChoices[entity_type] :
         source_data' = WithData(source_data, entity_type, data)
  /\ UNCHANGED <<target_data, checks, results, checkOp>>
  /\ UNCHANGED <<matchVars, identityVars, secondVars, enrollVars, gradeVars, attendVars>>

\* set_target_data before the first run
LoadTargetData ==
  /\ results = <<>>
  /\ \E entity_type \in TargetTypes :
       \E data \in TargetChoices[entity_type] :
         target_data' = WithData(target_data, entity_type, data)
  /\ UNCHANGED <<source_data, checks, results, checkOp>>
  /\ UNCHANGED <<matchVars, identityVars, secondVars, enrollVars, gradeVars, attendVars>>

\* register_check, once, before the first run
RegisterCheck ==
  /\ results = <<>>
  /\ checks = DefaultChecks
  /\ checks' = Append(checks, CustomCheck)
  /\ UNCHANGED <<source_data, target_data, results, checkOp>>
  /\ UNCHANGED <<matchVars, identityVars, secondVars, enrollVars, gradeVars, attendVars>>

\* run_all_checks: the results replace the results of the run before
RunAllChecks ==
  /\ \E student_sample \in SamplesOf(DataOf(source_data, "students"), StudentSampleSize) :
       \E grade_sample \in SamplesOf(DataOf(source_data, "grades"), GradeSampleSize) :
         results' = run_all_checks(checks, source_data, target_data,
                                   student_sample, grade_sample)
  /\ checkOp' = [op |-> "run_all_checks"]
  /\ UNCHANGED <<source_data, target_data, checks>>
  /\ UNCHANGED <<matchVars, identityVars, secondVars, enrollVars, gradeVars, attendVars>>

\* get_summary after a run
GetSummary ==
  /\ results # <<>>
  /\ checkOp' = [op |-> "get_summary", summary |-> get_summary(checks, results)]
  /\ UNCHANGED <<source_data, target_data, checks, results>>
  /\ UNCHANGED <<matchVars, identityVars, secondVars, enrollVars, gradeVars, attendVars>>

SpecReconInit == MatchInit /\ IdentityInit /\ SecondInit /\ EnrollIdle
  /\ GradeIdle /\ AttendIdle /\ ReconIdle

SpecReconNext ==
  LoadSourceData \/ LoadTargetData \/ RegisterCheck \/ RunAllChecks \/ GetSummary

SpecRecon == SpecReconInit /\ [][SpecReconNext]_vars

----------------------------------------------------------------------------
(* Specification SpecHash: the students of the source and of the target are   *)
(* loaded in any order of the records, then run_all_checks and get_summary     *)

MaxHashRecords == 2

\* a second student, and two records with no id at all
StudentTwo == [id |-> <<"2">>, first_name |-> <<"a">>, last_name |-> <<"z">>]

NamedC == [first_name |-> <<"c">>]

NamedD == [first_name |-> <<"d">>]

HashRecords == {StudentFull, StudentBare, StudentTwo, NamedC, NamedD}

HashLists == UNION {[1 .. n -> HashRecords] : n \in 0 .. MaxHashRecords}

\* set_source_data("students", data) before the first run
LoadSourceStudents ==
  /\ results = <<>>
  /\ \E data \in HashLists : source_data' = WithData(source_data, "students", data)
  /\ UNCHANGED <<target_data, checks, results, checkOp>>
  /\ UNCHANGED <<matchVars, identityVars, secondVars, enrollVars, gradeVars, attendVars>>

\* set_target_data("students", data) before the first run
LoadTargetStudents ==
  /\ results = <<>>
  /\ \E data \in HashLists : target_data' = WithData(target_data, "students", data)
  /\ UNCHANGED <<source_data, checks, results, checkOp>>
  /\ UNCHANGED <<matchVars, identityVars, secondVars, enrollVars, gradeVars, attendVars>>

SpecHashInit == MatchInit /\ IdentityInit /\ SecondInit /\ EnrollIdle
  /\ GradeIdle /\ AttendIdle /\ ReconIdle

SpecHashNext == LoadSourceStudents \/ LoadTargetStudents \/ RunAllChecks \/ GetSummary

SpecHash == SpecHashInit /\ [][SpecHashNext]_vars

----------------------------------------------------------------------------
(* Specification SpecIssues: the operations that write or read the issue list  *)
(* of an enrollment, a grade or an attendance processor.  The three            *)
(* processors share no state; a behaviour works on one of them.                *)

MaxIssueRecords == 2

MaxIssueCount == 3

\* no operation of the processor has been called
EnrollUnused == lastOp.op = "none"

GradeUnused == gradeOp.op = "none"

AttendUnused == attendOp.op = "none"

\* two spans that overlap, and a third one after a long gap
IssueSpans == {Span("A", 1, 2), Span("A", 2, 3), Span("A", 9, 9)}

AddIssueEnrollment ==
  /\ GradeUnused /\ AttendUnused
  /\ \E record \in IssueSpans : AddFrom(record, MaxIssueRecords)
  /\ UNCHANGED added

FindOverlaps ==
  /\ GradeUnused /\ AttendUnused
  /\ Len(issues) < MaxIssueCount
  /\ issues' = find_overlaps(issues, enrollments, today)
  /\ lastOp' = [op |-> "find_overlaps", given |-> Len(enrollments),
                result |-> Len(issues') - Len(issues)]
  /\ UNCHANGED <<enrollments, today, added>>
  /\ UNCHANGED <<matchVars, identityVars, secondVars, gradeVars, attendVars, reconVars>>

FindIssueGaps ==
  /\ GradeUnused /\ AttendUnused
  /\ FindGapsUpTo(MaxIssueCount)

EnrollmentStats ==
  /\ GradeUnused /\ AttendUnused
  /\ lastOp' = [op |-> "get_stats", given |-> Len(enrollments),
                result |-> enrollment_stats(enrollments, issues)]
  /\ UNCHANGED <<enrollments, issues, today, added>>
  /\ UNCHANGED <<matchVars, identityVars, secondVars, gradeVars, attendVars, reconVars>>

\* one course, with a valid grade and with a text that is no grade
IssueGrades ==
  RecordsOf({[COURSE_CODE |-> <<"e", "n", "g">>,
              COURSE_NAME |-> <<"e", "n", "g", "l", "i", "s", "h">>,
              SEMESTER |-> <<"s", "1">>]},
            {<<"A">>, <<"?">>}, {<<"3">>})

ProcessIssueGrade ==
  /\ EnrollUnused /\ AttendUnused
  /\ \E record \in IssueGrades : ProcessFrom(record, MaxIssueRecords)

FindDuplicateGrades ==
  /\ EnrollUnused /\ AttendUnused
  /\ Len(gradeIssues) < MaxIssueCount
  /\ LET duplicates == find_duplicate_grades(grades)
     IN /\ gradeIssues' = gradeIssues \o duplicates
        /\ gradeOp' = [op |-> "find_duplicates", result |-> Len(duplicates)]
  /\ UNCHANGED <<grades, transcripts>>
  /\ UNCHANGED <<matchVars, identityVars, secondVars, enrollVars, attendVars, reconVars>>

GradeStats ==
  /\ EnrollUnused /\ AttendUnused
  /\ gradeOp' = [op |-> "get_stats",
                 result |-> grade_stats(grades, transcripts, gradeIssues)]
  /\ UNCHANGED <<grades, gradeIssues, transcripts>>
  /\ UNCHANGED <<matchVars, identityVars, secondVars, enrollVars, attendVars, reconVars>>

\* one date, with a code of the table and with a code of no table
IssueRecords == AttendRecordsOf({1}, {<<"P">>, <<"X">>})

ProcessIssueRecord ==
  /\ EnrollUnused /\ GradeUnused
  /\ \E record \in IssueRecords : ProcessRecordFrom(record, MaxIssueRecords)

FindDuplicateAttendance ==
  /\ EnrollUnused /\ GradeUnused
  /\ Len(attendIssues) < MaxIssueCount
  /\ LET duplicates == find_duplicate_attendance(records)
     IN /\ attendIssues' = attendIssues \o duplicates
        /\ attendOp' = [op |-> "find_duplicates", result |-> Len(duplicates)]
  /\ UNCHANGED <<records, daily_summaries, aggregates, custom_mappings, unmapped_codes>>
  /\ UNCHANGED <<matchVars, identityVars, secondVars, enrollVars, gradeVars, reconVars>>

AggregateIssueRecords ==
  /\ EnrollUnused /\ GradeUnused
  /\ AggregateOver(1, 1)

VerifyIssueTotals ==
  /\ EnrollUnused /\ GradeUnused
  /\ VerifyTotalsUpTo(MaxIssueCount)

AttendanceStats ==
  /\ EnrollUnused /\ GradeUnused
  /\ attendOp' = [op |-> "get_stats",
                  result |-> attendance_stats(records, daily_summaries, aggregates,
                                              attendIssues, unmapped_codes)]
  /\ UNCHANGED <<records, daily_summaries, aggregates, attendIssues,
                 custom_mappings, unmapped_codes>>
  /\ UNCHANGED <<matchVars, identityVars, secondVars, enrollVars, gradeVars, reconVars>>

SpecIssuesInit == MatchInit /\ IdentityInit /\ SecondInit /\ EnrollIdle
  /\ GradeIdle /\ AttendIdle /\ ReconIdle

SpecIssuesNext ==
  \/ AddIssueEnrollment \/ FindOverlaps \/ FindIssueGaps \/ EnrollmentStats
  \/ ProcessIssueGrade \/ FindDuplicateGrades \/ GradeStats
  \/ ProcessIssueRecord \/ FindDuplicateAttendance \/ AggregateIssueRecords
  \/ VerifyIssueTotals \/ AttendanceStats

SpecIssues == SpecIssuesInit /\ [][SpecIssuesNext]_vars

----------------------------------------------------------------------------
(* Specification SpecYear: parse_school_year on the texts of a school year *)

\* the two-digit text of a year of the century
ShortYear(n) == <<DigitTexts[(n \div 10) + 1], DigitTexts[(n % 10) + 1]>>

\* every school year written YY-YY: a year and the year after it
ShortRanges ==
  {ShortYear(n) \o <<"-">> \o ShortYear((n + 1) % 100) : n \in 0 .. 99}

LongYears ==
  {<<"1", "9", "9", "9">>, <<"2", "0", "2", "3">>, <<"2", "0", "2", "4">>,
   <<"0", "0", "9", "9">>, <<"9", "9", "9", "9">>}

\* texts no pattern of parse_school_year matches
OtherYearTexts ==
  {<<>>, <<"2", "0", "2", "3", "-", "2", "4">>, <<"2", "3", "/", "2", "4">>,
   <<"2", "3">>, <<"F", "Y", "2", "4">>}

YearTexts ==
  ShortRanges
    \cup {<<" ", "2", "3", "-", "2", "4", " ">>, <<"2", "3", "-", "2", "3">>}
    \cup LongYears
    \cup {start \o <<"-">> \o end : start \in LongYears, end \in LongYears}
    \cup OtherYearTexts

ParseSchoolYear ==
  /\ \E year_str \in YearTexts :
       lastOp' = [op |-> "parse_school_year", given |-> year_str,
                  result |-> parse_school_year(year_str)]
  /\ UNCHANGED <<enrollments, issues, today, added>>
  /\ UNCHANGED <<matchVars, identityVars, secondVars, gradeVars, attendVars, reconVars>>

SpecYearInit == MatchInit /\ IdentityInit /\ SecondInit /\ EnrollIdle
  /\ GradeIdle /\ AttendIdle /\ ReconIdle

SpecYearNext == ParseSchoolYear

SpecYear == SpecYearInit /\ [][SpecYearNext]_vars

----------------------------------------------------------------------------
(* Claims about match_records, checked under SpecMatch *)

NormalizedStateId(record) == Strip(Str(record.state_id))

SameNormalizedStateId ==
  /\ matchCall.done
  /\ matchCall.record1.state_id # None
  /\ matchCall.record2.state_id # None
  /\ NormalizedStateId(matchCall.record1) = NormalizedStateId(matchCall.record2)

\* C1 as stated: two records that both carry a state id, the two ids identical
\* after str() and strip(), always match with confidence EXACT.
C1_SameStateIdIsExact ==
  SameNormalizedStateId => matchCall.result.confidence = "EXACT"

\* C1 as amended: two records whose state ids are both non-empty as given
\* (truthy before normalization) and identical after str() and strip() match
\* with confidence EXACT, whatever the other fields contain.
C1_TruthySameStateIdIsExact ==
  (/\ SameNormalizedStateId
   /\ matchCall.record1.state_id # <<>>
   /\ matchCall.record2.state_id # <<>>)
  => matchCall.result.confidence = "EXACT"

\* two ids that differ only in whitespace, on records of another name and birth date
C1_Witness ==
  /\ SameNormalizedStateId
  /\ matchCall.record1.state_id # <<>>
  /\ matchCall.record2.state_id # <<>>
  /\ matchCall.record1.state_id # matchCall.record2.state_id
  /\ NormalizedStateId(matchCall.record1) # <<>>
  /\ InSeq("last_name", matchCall.result.mismatched_fields)
  /\ InSeq("date_of_birth", matchCall.result.mismatched_fields)
  /\ matchCall.result.confidence = "EXACT"

\* C5: the match_score of every MatchResult lies in [0, 1] (0 to 100 hundredths).
C5_ScoreInUnitInterval ==
  matchCall.done =>
    matchCall.result.match_score >= 0 /\ matchCall.result.match_score <= 100

----------------------------------------------------------------------------
(* Claims about resolve_identity, checked under SpecIdentity and SpecGolden *)

LastPair == <<lastResolve.source, lastResolve.source_id>>

\* the golden records that list source_id as the id they hold for source
HoldersOf(pair) ==
  {i \in DOMAIN resolver.golden_records :
     LET ids == resolver.golden_records[i].golden.source_ids
     IN pair[1] \in DOMAIN ids /\ ids[pair[1]] = pair[2]}

C2_Invariant ==
  /\ (lastResolve.n > 0 /\ lastResolve.seen)
       => /\ lastResolve.golden_id = returned[LastPair]
          /\ ~lastResolve.is_new
  /\ \A i \in DOMAIN resolver.golden_records :
       resolver.golden_records[i].golden.golden_id = resolver.golden_records[i].key
  /\ \A pair \in DOMAIN returned :
       /\ pair \in DOMAIN resolver.source_to_golden
       /\ resolver.source_to_golden[pair] = returned[pair]
       /\ Cardinality(HoldersOf(pair)) <= 1

C2_KeysKept ==
  \A i \in DOMAIN resolver.golden_records :
    /\ i \in DOMAIN resolver'.golden_records
    /\ resolver'.golden_records[i].key = resolver.golden_records[i].key
    /\ resolver'.golden_records[i].golden.golden_id
         = resolver.golden_records[i].golden.golden_id

\* C2: once a call returned golden id g for a (source, source_id) pair, every
\* later call for the pair returns g with is_new = FALSE; the record stored
\* under a key carries that key as its golden_id and keeps it; and no pair is
\* held by two golden records or mapped to another id than the one returned.
C2_GoldenIdStable == []C2_Invariant /\ [][C2_KeysKept]_vars

\* a pair resolved again with a record that no longer matches its golden record
C2_Witness ==
  /\ lastResolve.n > 1
  /\ lastResolve.seen
  /\ \E i \in DOMAIN resolver.golden_records :
       /\ resolver.golden_records[i].key = lastResolve.golden_id
       /\ match_records(lastResolve.record,
                        GoldenDict(resolver.golden_records[i].golden)).confidence
            \notin {"EXACT", "HIGH"}

NormalizedTuple(record) ==
  <<normalize_name(GetOrEmpty(record.first_name)),
    normalize_name(GetOrEmpty(record.last_name)),
    Str(OrElse(record.date_of_birth, record.dob)),
    NormalizedStateId(record)>>

\* C3: two records with equal normalized (name, dob, state_id) tuples, each
\* resolved on an empty resolver of its own, get the same golden id (stated for
\* records that give the state id in the same way, so that the two differ at
\* most in the name's casing and punctuation and in the key of the birth date).
C3_SameTupleSameGoldenId ==
  (/\ lastResolve.n = 1
   /\ lastResolveB.n = 1
   /\ lastResolve.record.state_id = lastResolveB.record.state_id
   /\ NormalizedTuple(lastResolve.record) = NormalizedTuple(lastResolveB.record))
  => lastResolve.golden_id = lastResolveB.golden_id

\* the golden records of the resolver that match the record at Exact or High
ExactOrHigh(rs, record) ==
  {i \in DOMAIN rs.golden_records :
     match_records(record, GoldenDict(rs.golden_records[i].golden)).confidence
       \in {"EXACT", "HIGH"}}

C4_Step ==
  LET source == lastResolve'.source
      source_id == lastResolve'.source_id
      matching == ExactOrHigh(resolver, lastResolve'.record)
  IN (/\ lastResolve'.n = lastResolve.n + 1
      /\ <<source, source_id>> \notin DOMAIN resolver.source_to_golden
      /\ matching # {})
     => LET i == CHOOSE k \in matching : \A j \in matching : k <= j
        IN /\ lastResolve'.golden_id = resolver.golden_records[i].key
           /\ ~lastResolve'.is_new
           /\ Len(resolver'.golden_records) = Len(resolver.golden_records)
           /\ source \in DOMAIN resolver'.golden_records[i].golden.source_ids
           /\ resolver'.golden_records[i].golden.source_ids[source] = source_id
           /\ resolver'.source_to_golden[<<source, source_id>>]
                = resolver.golden_records[i].key

\* C4: a call whose (source, source_id) is not cached and whose record matches an
\* existing golden record at Exact or High returns the id of the first such
\* record in table order with is_new = FALSE, records the source id on it and
\* adds no golden record.
C4_FirstMatchWins == [][C4_Step]_vars

\* an uncached record merged into one of several golden records
C4_Witness ==
  /\ lastResolve.n > 1
  /\ ~lastResolve.seen
  /\ ~lastResolve.is_new
  /\ Len(resolver.golden_records) >= 2
  /\ \E i \in DOMAIN resolver.golden_records :
       /\ resolver.golden_records[i].key = lastResolve.golden_id
       /\ Cardinality(DOMAIN resolver.golden_records[i].golden.source_ids) >= 2

----------------------------------------------------------------------------
(* Claims about normalize_enrollments, checked under SpecEnroll *)

IsClosed(span) == span.end_date # NoDate

\* the span covers the day: an ongoing span covers every day from its start on
Covers(span, day) ==
  span.start_date <= day /\ (span.end_date = NoDate \/ day <= span.end_date)

\* the two spans have a day in common
SharesDay(a, b) ==
  /\ IsValidSpan(a)
  /\ IsValidSpan(b)
  /\ (b.end_date = NoDate \/ a.start_date <= b.end_date)
  /\ (a.end_date = NoDate \/ b.start_date <= a.end_date)

Normalized == lastOp.op = "normalize_enrollments"

\* C6: after normalize_enrollments no two remaining spans of the same school
\* have a day in common (stated for closed spans, whose days do not depend on
\* the day of the call).
C6_NoSameSchoolOverlap ==
  (Normalized /\ \A k \in DOMAIN enrollments : IsClosed(enrollments[k]))
  => \A i \in DOMAIN enrollments : \A j \in DOMAIN enrollments :
       (i < j /\ enrollments[i].school_id = enrollments[j].school_id)
         => ~SharesDay(enrollments[i], enrollments[j])

C7_Step ==
  (/\ lastOp'.op = "normalize_enrollments"
   /\ Len(enrollments) = 2
   /\ enrollments[1].school_id = enrollments[2].school_id
   /\ SharesDay(enrollments[1], enrollments[2]))
  => \A day \in 1 .. today :
       (Covers(enrollments[1], day) \/ Covers(enrollments[2], day))
         => \E k \in DOMAIN enrollments' :
              /\ enrollments'[k].school_id = enrollments[1].school_id
              /\ Covers(enrollments'[k], day)

\* C7: normalizing two overlapping spans of one school loses no covered day:
\* every day up to the day of the call that either span covers is covered by a
\* span of the result (an ongoing span covers every day from its start on).
C7_MergeKeepsCoveredDays == [][C7_Step]_vars

\* C8: every span normalize_enrollments leaves has start_date <= end_date or no
\* end date, all spans added having been so.
C8_EndNotBeforeStart ==
  Normalized => \A k \in DOMAIN enrollments : IsValidSpan(enrollments[k])

\* a normalization that merged spans and left a closed span longer than one day
C8_Witness ==
  /\ Normalized
  /\ Len(enrollments) < lastOp.given
  /\ \E k \in DOMAIN enrollments :
       IsClosed(enrollments[k]) /\ enrollments[k].start_date < enrollments[k].end_date

C9_Step ==
  (/\ lastOp'.op = "normalize_enrollments"
   /\ Len(enrollments) = 2
   /\ IsClosed(enrollments[1])
   /\ IsClosed(enrollments[2])
   /\ enrollments[1].school_id = enrollments[2].school_id
   /\ SharesDay(enrollments[1], enrollments[2]))
  => enrollments' =
       <<Span(enrollments[1].school_id,
              Min(enrollments[1].start_date, enrollments[2].start_date),
              Max(enrollments[1].end_date, enrollments[2].end_date))>>

\* C9: two closed, overlapping spans of one school are normalized to the single
\* span from the earlier start to the later end, in whichever order they were added.
C9_TwoSpansMergeToOne == [][C9_Step]_vars

\* two spans normalized to one span that runs over the whole calendar
C9_Witness ==
  /\ Normalized
  /\ lastOp.given = 2
  /\ Len(enrollments) = 1
  /\ IsClosed(enrollments[1])
  /\ enrollments[1].end_date - enrollments[1].start_date = MaxDay - 1

----------------------------------------------------------------------------
(* Claims about gap_with and find_gaps, checked under SpecGap *)

\* the days that lie after the end of one span and before the start of the other
UncoveredBetween(a, b) ==
  Cardinality({day \in 1 .. MaxGapDay :
                 \/ a.end_date < day /\ day < b.start_date
                 \/ b.end_date < day /\ day < a.start_date})

SpanPairs ==
  {pair \in (DOMAIN enrollments) \X (DOMAIN enrollments) : pair[1] # pair[2]}

BothClosed(a, b) == IsClosed(a) /\ IsClosed(b)

\* C10 as stated: gap_with reports a gap only when both spans are closed and
\* more than 5 uncovered days lie between them.
C10_GapWithOnlyAboveFive ==
  \A pair \in SpanPairs :
    LET a == enrollments[pair[1]]
        b == enrollments[pair[2]]
    IN gap_with(a, b)[1] => BothClosed(a, b) /\ UncoveredBetween(a, b) > 5

\* C10 as amended: gap_with reports a gap only when both spans are closed and at
\* least one uncovered day lies between them, gap_days being their number, so it
\* reports the gaps of 1 to 5 days too; the threshold is find_gaps's, which
\* flags a pair only when its gap exceeds 5 days, and then does flag it.
C10_GapWithAnyGapFindGapsAboveFive ==
  /\ \A pair \in SpanPairs :
       LET a == enrollments[pair[1]]
           b == enrollments[pair[2]]
       IN /\ gap_with(a, b)[1]
               => /\ BothClosed(a, b)
                  /\ UncoveredBetween(a, b) >= 1
                  /\ gap_with(a, b)[2] = UncoveredBetween(a, b)
          /\ (BothClosed(a, b) /\ UncoveredBetween(a, b) \in 1 .. 5)
               => gap_with(a, b)[1]
  /\ lastOp.op = "find_gaps"
       => /\ \A k \in DOMAIN lastOp.result :
               /\ lastOp.result[k][3] > 5
               /\ BothClosed(lastOp.result[k][1], lastOp.result[k][2])
               /\ UncoveredBetween(lastOp.result[k][1], lastOp.result[k][2])
                    = lastOp.result[k][3]
          /\ (/\ Len(enrollments) = 2
              /\ BothClosed(enrollments[1], enrollments[2])
              /\ UncoveredBetween(enrollments[1], enrollments[2]) > 5)
               => Len(lastOp.result) = 1

\* find_gaps ran on two spans five days apart, a gap gap_with reports, and
\* flagged nothing
C10_Witness ==
  /\ lastOp.op = "find_gaps"
  /\ Len(enrollments) = 2
  /\ gap_with(enrollments[1], enrollments[2]) = <<TRUE, 5>>
  /\ lastOp.result = <<>>
  /\ issues = <<>>

----------------------------------------------------------------------------
(* Claims about get_active_enrollment, checked under SpecActive *)

\* the first span, in the order of addition, that covers the day
FirstAddedCovering(day) ==
  LET covering == {i \in DOMAIN added : Covers(added[i], day)}
  IN IF covering = {} THEN <<>>
     ELSE <<added[CHOOSE i \in covering : \A j \in covering : i <= j]>>

\* C11: get_active_enrollment returns the first span, in the order in which the
\* spans were added, that contains as_of (today without one), and nothing when
\* no span contains it, after any add_enrollment and normalize_enrollments
\* calls (stated for the runs in which no two spans were merged, so that the
\* spans stored are the spans added).
C11_FirstAddedActive ==
  (/\ lastOp.op = "get_active_enrollment"
   /\ Len(enrollments) = Len(added))
  => lastOp.result =
       FirstAddedCovering(IF lastOp.as_of # NoDate THEN lastOp.as_of ELSE today)

----------------------------------------------------------------------------
(* Claims about process_grade, build_transcript and calculate_gpa, checked  *)
(* under SpecGrades and SpecGpa                                              *)

\* the grade of the record is P, NP, I or W, as given or as process_grade
\* stores its letter
HasNoValueGrade(grade_record) ==
  \/ UpperStr(grade_record.raw_grade) \in LettersWithoutPoints
  \/ grade_record.letter_grade \in LettersWithoutPoints

\* C12: adding a course whose grade is P, NP, I or W, with positive credits,
\* leaves the cumulative and the weighted GPA of the transcript that
\* build_transcript computes unchanged.
C12_NoGpaValue ==
  [][(/\ gradeOp'.op = "process_grade"
      /\ Len(grades') = Len(grades) + 1
      /\ HasNoValueGrade(gradeOp'.result)
      /\ gradeOp'.result.credits_attempted > 0)
     => /\ build_transcript(grades').cumulative_gpa = build_transcript(grades).cumulative_gpa
        /\ build_transcript(grades').weighted_gpa = build_transcript(grades).weighted_gpa]_vars

HasPositiveCredits(entry) == entry.credits_attempted > 0

HasCredits(entry) == entry.credits_attempted # 0

\* sum(grade_points x credits_attempted) over the entries, in hundredths
RECURSIVE SumQualityPoints(_)
SumQualityPoints(entries) ==
  IF entries = <<>> THEN 0
  ELSE Head(entries).grade_points * Head(entries).credits_attempted
         + SumQualityPoints(Tail(entries))

\* sum(credits_attempted) over the entries, in tenths
RECURSIVE SumCreditsAttempted(_)
SumCreditsAttempted(entries) ==
  IF entries = <<>> THEN 0
  ELSE Head(entries).credits_attempted + SumCreditsAttempted(Tail(entries))

\* gpa, in thousandths, is the quotient of the sums of the entries to the
\* nearest thousandth
IsRoundedGpa(gpa, entries) ==
  LET difference == gpa * SumCreditsAttempted(entries) - 100 * SumQualityPoints(entries)
  IN /\ 2 * difference <= SumCreditsAttempted(entries)
     /\ -2 * difference <= SumCreditsAttempted(entries)

\* gpa, in thousandths, is the quotient of the sums of the entries
IsExactGpa(gpa, entries) ==
  gpa * SumCreditsAttempted(entries) = 100 * SumQualityPoints(entries)

\* the GPAs of a transcript are those of its entries without the zero-credit ones
SameWithoutZeroCredits(entries) ==
  LET all == calculate_gpa(entries)
      rest == calculate_gpa(SelectSeq(entries, HasCredits))
  IN /\ all.cumulative_gpa = rest.cumulative_gpa
     /\ all.weighted_gpa = rest.weighted_gpa

\* C13 (as amended): the transcript that build_transcript stores has the GPAs
\* (0.0, 0.0) when it has no entry with positive attempted credits (none at
\* all, or zero-credit ones only); otherwise its cumulative GPA is
\* sum(grade_points x credits_attempted) / sum(credits_attempted) over the
\* entries with positive attempted credits, rounded to three decimals; and its
\* GPAs are those of the same entries without the zero-credit ones.
C13_GpaRounded ==
  transcripts # <<>> =>
    LET transcript == transcripts[1]
        counted == SelectSeq(transcript.entries, HasPositiveCredits)
    IN /\ counted = <<>> =>
            transcript.cumulative_gpa = 0 /\ transcript.weighted_gpa = 0
       /\ counted # <<>> => IsRoundedGpa(transcript.cumulative_gpa, counted)
       /\ calculate_gpa(transcript.entries).cumulative_gpa = transcript.cumulative_gpa
       /\ calculate_gpa(transcript.entries).weighted_gpa = transcript.weighted_gpa
       /\ SameWithoutZeroCredits(transcript.entries)

\* a stored transcript of an A course of two credits and a B+ course of one
\* credit: 11.3 / 3 is 3.767 to three decimals
C13_Witness ==
  /\ transcripts # <<>>
  /\ Len(transcripts[1].entries) = 2
  /\ \A i \in 1 .. 2 : HasPositiveCredits(transcripts[1].entries[i])
  /\ SumQualityPoints(transcripts[1].entries) = 1130
  /\ SumCreditsAttempted(transcripts[1].entries) = 30
  /\ transcripts[1].cumulative_gpa = 3767

\* C13 as stated: the cumulative GPA is the quotient itself.
C13_GpaExact ==
  transcripts # <<>> =>
    LET transcript == transcripts[1]
        counted == SelectSeq(transcript.entries, HasPositiveCredits)
    IN /\ counted = <<>> =>
            transcript.cumulative_gpa = 0 /\ transcript.weighted_gpa = 0
       /\ counted # <<>> => IsExactGpa(transcript.cumulative_gpa, counted)
       /\ SameWithoutZeroCredits(transcript.entries)

\* the (course_code, term, school_year) of a grade record or transcript entry
Triple(grade) == <<grade.course_code, grade.term, grade.school_year>>

\* the highest grade-point value among the records of the triple
HighestPoints(grade_list, triple) ==
  CHOOSE points \in {grade_list[i].grade_points : i \in DOMAIN grade_list} :
    /\ \E i \in DOMAIN grade_list :
         Triple(grade_list[i]) = triple /\ grade_list[i].grade_points = points
    /\ \A i \in DOMAIN grade_list :
         Triple(grade_list[i]) = triple => grade_list[i].grade_points <= points

\* C14: in the transcript build_transcript returns, no two entries have the
\* same (course_code, term, school_year), every entry has the highest
\* grade-point value among the records of its triple, and records of different
\* triples are no duplicates of each other: when the triples of the records
\* are all different, every record with a letter grade has its entry.
C14_DedupByTriple ==
  gradeOp.op = "build_transcript" =>
    LET entries == gradeOp.result.entries
    IN /\ \A i, j \in DOMAIN entries :
            Triple(entries[i]) = Triple(entries[j]) => i = j
       /\ \A i \in DOMAIN entries :
            entries[i].grade_points = HighestPoints(grades, Triple(entries[i]))
       /\ (\A i, j \in DOMAIN grades : Triple(grades[i]) = Triple(grades[j]) => i = j)
            => \A i \in DOMAIN grades :
                 Truthy(grades[i].letter_grade)
                   => \E k \in DOMAIN entries : Triple(entries[k]) = Triple(grades[i])

----------------------------------------------------------------------------
(* Claims about detect_grade_type, checked under SpecGrades *)

\* the type the raw value is said to have: Letter for [A-F][+-]?, PassFail for
\* P/NP/PASS/FAIL/S/U, Numeric for a number from 0 to 5, Percentage for
\* another number from 0 to 100 (with or without %), Letter for the rest
StatedGradeType(grade) ==
  LET grade_str == UpperStr(Strip(grade))
      number == ParseFloat(grade_str)
      percent == ParseFloat(Without(grade_str, "%"))
  IN IF IsLetterGradeText(grade_str) THEN "letter"
     ELSE IF grade_str \in PassFailTexts THEN "pass_fail"
     ELSE IF number[1] /\ 0 <= number[2] /\ number[2] <= NumericMax THEN "numeric"
     ELSE IF percent[1] /\ 0 <= percent[2] /\ percent[2] <= PercentageMax
          THEN "percentage"
     ELSE "letter"

\* C15: detect_grade_type gives Numeric for a number on the GPA scale (3.5),
\* Percentage for a number from 0 to 100, Letter for [A-F][+-]?, PassFail for
\* P/NP/PASS/FAIL/S/U and Letter for anything else.
C15_DetectedType ==
  gradeOp.op = "detect_grade_type" => gradeOp.result = StatedGradeType(gradeOp.grade)

----------------------------------------------------------------------------
(* Claims about map_code and process_record, checked under SpecCodes *)

\* the step is a process_record call on a record with the status code
IsProcessRecordOf(code) ==
  /\ attendOp'.op = "process_record"
  /\ Len(records') = Len(records) + 1
  /\ Strip(Str(attendOp'.record.Status)) = code

\* the code is in neither the custom mappings nor the static table
IsInNoTable(code) ==
  /\ NormalizedCode(code) \notin DOMAIN custom_mappings
  /\ ~IsStandardCode(NormalizedCode(code))

\* the record is stored as Absent and exactly one unmapped_code issue is added
StoresAbsentWithIssue(code) ==
  /\ records'[Len(records')].status = "Absent"
  /\ Len(attendIssues') = Len(attendIssues) + 1
  /\ SubSeq(attendIssues', 1, Len(attendIssues)) = attendIssues
  /\ attendIssues'[Len(attendIssues')].type = "unmapped_code"
  /\ attendIssues'[Len(attendIssues')].code = code

\* the record is stored with the custom status and no issue is added
StoresCustomStatus(code) ==
  /\ records'[Len(records')].status = custom_mappings[NormalizedCode(code)]
  /\ attendIssues' = attendIssues

\* the status codes of the records, as process_record strips them
StrippedCodes == {Strip(Str(record.Status)) : record \in CodeRecords}

\* C16 (as amended): process_record on a record whose status code is not empty
\* and is in neither the custom mappings nor the static table stores the
\* record as Absent and adds exactly one unmapped_code issue; a code that is
\* not empty and is in the custom mappings takes the custom status, whatever
\* the static table says, and adds no issue.
C16_UnmappedAndCustom ==
  [][\A code \in StrippedCodes \ {<<>>} :
       IsProcessRecordOf(code) =>
         /\ IsInNoTable(code) => StoresAbsentWithIssue(code)
         /\ NormalizedCode(code) \in DOMAIN custom_mappings => StoresCustomStatus(code)]_vars

\* the code X was stored as Absent with its issue, and then the code P, given
\* the custom status Tardy, was stored as Tardy with no issue
C16_Witness ==
  /\ attendOp.op = "process_record"
  /\ Len(records) = 2
  /\ records[1].source_code = <<"X">> /\ records[1].status = "Absent"
  /\ records[2].source_code = <<"P">> /\ records[2].status = "Tardy"
  /\ <<"p">> \in DOMAIN custom_mappings /\ custom_mappings[<<"p">>] = "Tardy"
  /\ Len(attendIssues) = 1 /\ attendIssues[1].code = <<"X">>

\* C16 as stated: for every status code, the empty one too.
C16_AnyCode ==
  [][\A code \in StrippedCodes :
       IsProcessRecordOf(code) =>
         /\ IsInNoTable(code) => StoresAbsentWithIssue(code)
         /\ NormalizedCode(code) \in DOMAIN custom_mappings => StoresCustomStatus(code)]_vars

----------------------------------------------------------------------------
(* Claims about calculate_daily_status, checked under SpecDaily *)

AbsentStatuses == {"Absent", "Excused", "Unexcused"}

\* the number of period records of the summary with one of the statuses
PeriodsWith(summary, statuses) ==
  Cardinality({i \in DOMAIN summary.period_records :
                 summary.period_records[i].status \in statuses})

\* C17: every stored daily summary of a non-empty list of period records has
\* the status Absent if the absent count (Absent, Excused and Unexcused
\* records) is the total; else Half Day if the absent count is more than half
\* the total; else Tardy if a record is tardy and none is absent; else Present.
C17_DailyPriority ==
  \A day \in DOMAIN daily_summaries :
    LET summary == daily_summaries[day]
        total == Len(summary.period_records)
        absent == PeriodsWith(summary, AbsentStatuses)
        tardy == PeriodsWith(summary, {"Tardy"})
    IN total > 0 =>
         /\ absent = total => summary.daily_status = "Absent"
         /\ (absent < total /\ 2 * absent > total) => summary.daily_status = "Half Day"
         /\ (2 * absent <= total /\ tardy > 0 /\ absent = 0)
              => summary.daily_status = "Tardy"
         /\ (absent < total /\ 2 * absent <= total /\ ~(tardy > 0 /\ absent = 0))
              => summary.daily_status = "Present"

\* a stored summary of three period records, two absent and one present, with
\* the status Half Day
C17_Witness ==
  /\ 1 \in DOMAIN daily_summaries
  /\ Len(daily_summaries[1].period_records) = 3
  /\ PeriodsWith(daily_summaries[1], {"Absent"}) = 2
  /\ PeriodsWith(daily_summaries[1], {"Present"}) = 1
  /\ daily_summaries[1].daily_status = "Half Day"

----------------------------------------------------------------------------
(* Claims about calculate_aggregate and calculate_rate, checked under         *)
(* SpecAggregate                                                              *)

\* the days of the range of the aggregate on which the student has a record
RecordedDays(aggregate) ==
  DatesWithin(records, aggregate.start_date, aggregate.end_date)

\* those of the days whose daily status is one of the statuses
DaysWithStatus(aggregate, statuses) ==
  {day \in RecordedDays(aggregate) :
     build_daily_summary(records, day).daily_status \in statuses}

\* rate, in hundredths of a percent, is part / total x 100 to two decimals
IsRoundedRate(rate, part, total) ==
  /\ 2 * (rate * total - part * 10000) <= total
  /\ 2 * (part * 10000 - rate * total) <= total

\* C18 (as amended): the rate of every aggregate calculate_aggregate returns
\* is within [0, 100]; it is (present + tardy days) / total days x 100 rounded
\* to two decimals, the days being those of the range with a record, so 100.0
\* when there is such a day and every such day is Present; it is 0.0 when the
\* range has no day with a record.
C18_RateRounded ==
  attendOp.op = "calculate_aggregate" =>
    LET aggregate == attendOp.result
        total == Cardinality(RecordedDays(aggregate))
        attended == Cardinality(DaysWithStatus(aggregate, {"Present", "Tardy"}))
    IN /\ 0 <= aggregate.attendance_rate /\ aggregate.attendance_rate <= 10000
       /\ total > 0 => IsRoundedRate(aggregate.attendance_rate, attended, total)
       /\ (total > 0 /\ DaysWithStatus(aggregate, {"Present"}) = RecordedDays(aggregate))
            => aggregate.attendance_rate = 10000
       /\ total = 0 => aggregate.attendance_rate = 0

\* an aggregate of three days, one present, one tardy and one absent:
\* 2 / 3 x 100 is 66.67 to two decimals
C18_Witness ==
  /\ attendOp.op = "calculate_aggregate"
  /\ Cardinality(RecordedDays(attendOp.result)) = 3
  /\ Cardinality(DaysWithStatus(attendOp.result, {"Present"})) = 1
  /\ Cardinality(DaysWithStatus(attendOp.result, {"Tardy"})) = 1
  /\ attendOp.result.attendance_rate = 6667

\* C18 as stated: the rate is the quotient itself.
C18_RateExact ==
  attendOp.op = "calculate_aggregate" =>
    LET aggregate == attendOp.result
        total == Cardinality(RecordedDays(aggregate))
        attended == Cardinality(DaysWithStatus(aggregate, {"Present", "Tardy"}))
    IN /\ 0 <= aggregate.attendance_rate /\ aggregate.attendance_rate <= 10000
       /\ total > 0 => aggregate.attendance_rate * total = attended * 10000
       /\ (total > 0 /\ DaysWithStatus(aggregate, {"Present"}) = RecordedDays(aggregate))
            => aggregate.attendance_rate = 10000

----------------------------------------------------------------------------
(* Claims about the stored summaries and aggregate, checked under SpecAttend *)

\* C19: after any process_record, build_daily_summary and calculate_aggregate
\* calls, every stored daily summary is the summary of the current records of
\* its date, and the stored aggregate, which verify_totals reads, is the
\* aggregate of the current records over its date range.
C19_SummariesCurrent ==
  /\ \A day \in DOMAIN daily_summaries :
       daily_summaries[day] = build_daily_summary(records, day)
  /\ aggregates # <<>> =>
       aggregates[1] =
         calculate_aggregate(records, aggregates[1].start_date, aggregates[1].end_date)

----------------------------------------------------------------------------
(* Claims about run_count_check, checked under SpecCount *)

\* the source collection of the entity type is missing or empty
HasNoSource(entity_type) ==
  entity_type \notin DOMAIN source_data \/ source_data[entity_type] = <<>>

\* the number of target records of the entity type, none when it is missing
TargetCount(entity_type) ==
  IF entity_type \in DOMAIN target_data THEN Len(target_data[entity_type]) ELSE 0

\* C20: a count check on an entity type whose source collection is empty or
\* missing yields Skipped, whatever the target collection; with a non-empty
\* source it yields Passed if targetCount / sourceCount >= threshold and
\* Failed otherwise.
C20_CountCheckStatus ==
  checkOp.op = "run_count_check" =>
    LET entity_type == checkOp.check.entity_type
        status == checkOp.result.status
    IN /\ HasNoSource(entity_type) => status = "skipped"
       /\ ~HasNoSource(entity_type) =>
            /\ status \in {"passed", "failed"}
            /\ status = "passed" <=>
                 TargetCount(entity_type) * 1000
                   >= checkOp.check.threshold * Len(source_data[entity_type])

\* a count check of the grades, which have target records and no source
\* collection, was skipped
C20_Witness ==
  /\ checkOp.op = "run_count_check"
  /\ checkOp.check.entity_type = "grades"
  /\ "grades" \notin DOMAIN source_data
  /\ TargetCount("grades") > 0
  /\ checkOp.result.status = "skipped"

----------------------------------------------------------------------------
(* Claims about run_all_checks and get_summary, checked under SpecRecon *)

\* the entity types whose collections the runner of the check reads
ExaminedTypes(check) ==
  CASE check.id \in {"count_students", "complete_student_guardian",
                     "complete_student_contact", "complete_student_enrollment",
                     "sample_student_data", "integrity_hash"} -> {"students"}
    [] check.id = "count_guardians" -> {"guardians"}
    [] check.id = "count_enrollments" -> {"enrollments"}
    [] check.id \in {"count_grades", "sample_grade_data"} -> {"grades"}
    [] check.id = "count_attendance" -> {"attendance"}
    [] check.id = "ref_enrollment_student" -> {"enrollments", "students"}
    [] check.id = "ref_grade_student" -> {"grades", "students"}
    [] check.id = "ref_attendance_student" -> {"attendance", "students"}
    [] check.id = "ref_guardian_student" -> {"relationships", "students"}
    [] OTHER -> {}

\* C21: for every registered check of every category, if no source data was
\* set for the entity types it examines, run_all_checks yields Skipped for
\* that check and never Failed, whatever target data is present.
C21_NoSourceSkipped ==
  results # <<>> =>
    \A i \in DOMAIN results :
      (\A entity_type \in ExaminedTypes(checks[i]) : entity_type \notin DOMAIN source_data)
        => results[i].status = "skipped"

\* the result of a check flagged blocking is Failed
BlockingFailed ==
  \E i \in DOMAIN results :
    /\ results[i].status = "failed"
    /\ \E j \in DOMAIN checks : checks[j].id = results[i].check_id /\ checks[j].is_blocking

\* C22 as amended: after run_all_checks, get_summary reports the overall
\* status BLOCKED whenever at least one check flagged blocking has status
\* Failed.
C22_BlockingIsBlocked ==
  (checkOp.op = "get_summary" /\ BlockingFailed)
    => checkOp.summary.overall_status = "BLOCKED"

\* the summary of a run in which the blocking check of the enrollment
\* references failed is BLOCKED
C22_Witness ==
  /\ checkOp.op = "get_summary"
  /\ \E i \in DOMAIN results :
       results[i].check_id = "ref_enrollment_student" /\ results[i].status = "failed"
  /\ checkOp.summary.overall_status = "BLOCKED"

\* C22: after run_all_checks, get_summary reports the overall status FAILED
\* whenever at least one check flagged blocking has status Failed.
C22_BlockingIsFailed ==
  (checkOp.op = "get_summary" /\ BlockingFailed)
    => checkOp.summary.overall_status = "FAILED"

\* C23: after run_all_checks, when no blocking check failed, get_summary
\* reports the overall status WARNING if at least one result is a
\* non-blocking Failed or a Warning, and PASSED only if no result is Failed
\* or Warning.
C23_WarningOrPassed ==
  (checkOp.op = "get_summary" /\ ~BlockingFailed) =>
    LET troubled == \E i \in DOMAIN results : results[i].status \in {"failed", "warning"}
    IN /\ troubled => checkOp.summary.overall_status = "WARNING"
       /\ checkOp.summary.overall_status = "PASSED" => ~troubled

\* C25: a hash check with non-empty source and target yields Passed when the
\* two hashes are equal and Warning when they differ, never Failed; the
\* integrity_hash check, although registered as blocking, never counts as a
\* blocking failure in the summary.
C25_HashNeverFails ==
  \A i \in DOMAIN results :
    checks[i].id = "integrity_hash" =>
      /\ checks[i].is_blocking
      /\ results[i].status # "failed"
      /\ (DataOf(source_data, "students") # <<>> /\ DataOf(target_data, "students") # <<>>) =>
           results[i].status =
             IF calculate_collection_hash(source_data["students"])
                  = calculate_collection_hash(target_data["students"])
             THEN "passed" ELSE "warning"
      /\ checkOp.op = "get_summary" =>
           checkOp.summary.blocking_failures =
             Cardinality({j \in DOMAIN results :
                            /\ j # i
                            /\ results[j].status = "failed"
                            /\ checks[j].is_blocking})

\* the hashes of the students differ, the hash check warns, and the summary
\* of the run counts no blocking failure
C25_Witness ==
  /\ checkOp.op = "get_summary"
  /\ DataOf(source_data, "students") = <<StudentFull>>
  /\ DataOf(target_data, "students") = <<StudentBare>>
  /\ \E i \in DOMAIN results :
       results[i].check_id = "integrity_hash" /\ results[i].status = "warning"
  /\ checkOp.summary.blocking_failures = 0

----------------------------------------------------------------------------
(* Claims about _calculate_collection_hash, checked under SpecHash *)

\* the number of times the record occurs in the collection
Occurrences(collection, record) ==
  Cardinality({i \in DOMAIN collection : collection[i] = record})

\* one collection holds the records of the other, in any order
IsReordering(a, b) ==
  /\ Len(a) = Len(b)
  /\ \A i \in DOMAIN a : Occurrences(a, a[i]) = Occurrences(b, a[i])

\* C24: the collection hash is order-independent: a collection and any
\* permutation of it have the same hash, so the hash check passes when the
\* target is a reordering of the source, also when several records share
\* the same id or lack an id.
C24_HashOrderIndependent ==
  (/\ results # <<>>
   /\ DataOf(source_data, "students") # <<>>
   /\ IsReordering(DataOf(source_data, "students"), DataOf(target_data, "students")))
    => /\ calculate_collection_hash(source_data["students"])
            = calculate_collection_hash(target_data["students"])
       /\ \A i \in DOMAIN results :
            results[i].check_id = "integrity_hash" => results[i].status = "passed"

----------------------------------------------------------------------------
(* Claims about the issue lists, checked under SpecIssues *)

\* the list after holds the list before, entry by entry, at its start
StartsWithList(after, before) ==
  /\ Len(before) <= Len(after)
  /\ SubSeq(after, 1, Len(before)) = before

\* C26: issue lists only accumulate: across any sequence of operations on
\* one enrollment, grade or attendance processor (adding records,
\* find_overlaps, find_gaps, find_duplicates, verify_totals, get_stats) no
\* previously recorded issue is removed or altered, and get_stats leaves the
\* issue list unchanged.
C26_IssuesAccumulate ==
  [][/\ StartsWithList(issues', issues)
     /\ StartsWithList(gradeIssues', gradeIssues)
     /\ StartsWithList(attendIssues', attendIssues)
     /\ lastOp'.op = "get_stats" => issues' = issues
     /\ gradeOp'.op = "get_stats" => gradeIssues' = gradeIssues
     /\ attendOp'.op = "get_stats" => attendIssues' = attendIssues]_vars

\* find_overlaps, run twice on two overlapping spans, has recorded the
\* overlap twice, and get_stats reports the two issues
C26_Witness ==
  /\ lastOp.op = "get_stats"
  /\ lastOp.result.overlaps = 2
  /\ Len(issues) = 2

\* an attendance processor holds an unmapped code, a duplicate and a
\* mismatch of the totals, in the order they were found
AttendanceIssuesFound ==
  /\ attendOp.op = "get_stats"
  /\ Len(attendIssues) >= 3
  /\ attendIssues[1].type = "unmapped_code"
  /\ \E i \in DOMAIN attendIssues : attendIssues[i].type = "duplicate_attendance"
  /\ \E i \in DOMAIN attendIssues : attendIssues[i].type = "total_mismatch"

\* a grade processor holds an invalid grade and a duplicate
GradeIssuesFound ==
  /\ gradeOp.op = "get_stats"
  /\ gradeOp.result.invalid_grades >= 1
  /\ gradeOp.result.duplicate_grades >= 1

----------------------------------------------------------------------------
(* Claims about parse_school_year, checked under SpecYear *)

\* the four-digit year a two-digit year stands for: 20xx below 50, else 19xx
InferredYear(short) ==
  (IF NatValue(short) < 50 THEN <<"2", "0">> ELSE <<"1", "9">>) \o short

\* C27: parse_school_year maps every two-digit year of a YY-YY input by
\* century inference (below 50 to 20xx, otherwise to 19xx), returns
\* YYYY-(YYYY+1) for a single YYYY, and returns a YYYY-YYYY input unchanged;
\* the end year of the result of a YY-YY input is never earlier than the
\* start year.
C27_SchoolYearParsed ==
  lastOp.op = "parse_school_year" =>
    LET given == Strip(lastOp.given)
        result == lastOp.result
    IN /\ IsShortRange(given) =>
            /\ result = InferredYear(SubSeq(given, 1, 2)) \o <<"-">>
                          \o InferredYear(SubSeq(given, 4, 5))
            /\ NatValue(SubSeq(result, 6, 9)) >= NatValue(SubSeq(result, 1, 4))
       /\ IsDigitText(given, 4) =>
            /\ SubSeq(result, 1, 4) = given
            /\ result[5] = "-"
            /\ NatValue(SubSeq(result, 6, Len(result))) = NatValue(given) + 1
       /\ IsYearRange(given) => result = given

----------------------------------------------------------------------------
(* Specification SpecTranscript: process_grade and build_transcript on the    *)
(* grades of one student in two courses whose keys differ; a grade is a       *)
(* letter with points, a letter without points, or no valid grade             *)

MaxKeyedGrades == 3

KeyedGradeTexts == {<<"A">>, <<"F">>, <<"?">>, <<>>}

KeyedCourses ==
  {[COURSE_CODE |-> <<"e", "n", "g", "-", "1">>, COURSE_NAME |-> <<"e", "n", "g", "l", "i", "s", "h">>, SEMESTER |-> <<"s", "1">>],
   [COURSE_CODE |-> <<"b", "i", "o">>, COURSE_NAME |-> <<"a", "p", " ", "b", "i", "o">>, SEMESTER |-> <<"s", "1">>]}

KeyedInputs == RecordsOf(KeyedCourses, KeyedGradeTexts, CreditTexts)

ProcessKeyedGrade == \E record \in KeyedInputs : ProcessFrom(record, MaxKeyedGrades)

SpecTranscriptNext == ProcessKeyedGrade \/ BuildTranscript

SpecTranscript == SpecGradesInit /\ [][SpecTranscriptNext]_vars

----------------------------------------------------------------------------
(* Claims about the golden-record table and the source-id index, checked     *)
(* under SpecIdentity                                                         *)

\* the golden record stored under the golden id lists source_id as the id of
\* the source
Aggregates(rs, golden_id, pair) ==
  \E i \in DOMAIN rs.golden_records :
    /\ rs.golden_records[i].key = golden_id
    /\ pair[1] \in DOMAIN rs.golden_records[i].golden.source_ids
    /\ rs.golden_records[i].golden.source_ids[pair[1]] = pair[2]

C28_Step ==
  (lastResolve'.n = lastResolve.n + 1 /\ lastResolve'.is_new) =>
    /\ Len(resolver'.golden_records) = Len(resolver.golden_records) + 1
    /\ \A i \in DOMAIN resolver.golden_records :
         /\ resolver'.golden_records[i] = resolver.golden_records[i]
         /\ resolver.golden_records[i].key # lastResolve'.golden_id
    /\ \A pair \in DOMAIN resolver.source_to_golden :
         Aggregates(resolver, resolver.source_to_golden[pair], pair)
           => Aggregates(resolver', resolver'.source_to_golden[pair], pair)

\* C28: whenever resolve_identity returns is_new = TRUE, the golden-record
\* table grows by exactly one entry and no existing golden record is replaced
\* or lost: the new golden id is the id of no earlier record, and every
\* golden id of the source-id index still refers to a golden record that
\* aggregates that source id.
C28_NewGoldenAdded == [][C28_Step]_vars

\* C29: after any sequence of resolve_identity calls the two indices agree:
\* source_to_golden maps (source, source_id) to g if and only if golden
\* record g lists source_id among the ids it aggregates for that source, also
\* when several records of the same source merge into the same golden
\* record; and the number of source mappings is the number of distinct
\* (source, source_id) pairs resolved.
C29_IndicesAgree ==
  /\ \A pair \in DOMAIN resolver.source_to_golden :
       Aggregates(resolver, resolver.source_to_golden[pair], pair)
  /\ \A i \in DOMAIN resolver.golden_records :
       \A source \in DOMAIN resolver.golden_records[i].golden.source_ids :
         LET pair == <<source, resolver.golden_records[i].golden.source_ids[source]>>
         IN /\ pair \in DOMAIN resolver.source_to_golden
            /\ resolver.source_to_golden[pair] = resolver.golden_records[i].key
  /\ Cardinality(DOMAIN resolver.source_to_golden) = Cardinality(DOMAIN returned)

----------------------------------------------------------------------------
(* Claims about the graded courses of a transcript, checked under            *)
(* SpecTranscript                                                             *)

\* the transcript entries of the (course_code, term, school_year)
EntriesFor(entries, triple) == {k \in DOMAIN entries : Triple(entries[k]) = triple}

\* C30: build_transcript loses no graded course: when a final grade record of
\* the student has a valid letter grade, the transcript has exactly one entry
\* for its (course_code, term, school_year), in whatever order the records
\* came and whatever other records of that key have an invalid or missing
\* grade.
C30_NoGradedCourseLost ==
  gradeOp.op = "build_transcript" =>
    \A i \in DOMAIN grades :
      (grades[i].status = "final" /\ Truthy(grades[i].letter_grade))
        => Cardinality(EntriesFor(gradeOp.result.entries, Triple(grades[i]))) = 1

====
